---- MODULE Spec2Model ----
(***************************************************************************)
(* A model of nano-web: the request-path validator (security.rs), the      *)
(* Accept-Encoding negotiation (response_buffer.rs, compression.rs,        *)
(* registered_buffers.rs), the route index with its boot and dev-mode      *)
(* refresh (routes.rs) and the connection handlers (ultra_server.rs,       *)
(* server_uring.rs, server_multiuring.rs).                                 *)
(*                                                                         *)
(* Strings are sequences of byte values (a Rust &str / &[u8]).             *)
(***************************************************************************)
EXTENDS Integers, Sequences, FiniteSets, Bags, TLC

VARIABLES
    rawPath,      \* validator: the request-line path handed to validate_request_path
    vres,         \* validator: its result, or NoResult before the call
    accept,       \* negotiation: the Accept-Encoding header value
    content,      \* negotiation: the CompressedContent of the requested route
    nres,         \* negotiation: what each of the three negotiation functions chose
    server,       \* which server runs: "nanoweb" (routes.rs), "ultra", "uring" or "multiuring"
    spa_mode,     \* config.spa_mode
    dev,          \* config.dev
    booted,       \* populate_routes (and RegisteredBufferManager::new) has run
    faulty,       \* the served directory at boot: file path -> the step that fails for it
    staticCache,  \* server.rs / fast_routes.rs static_cache: the urls that have an Mmap
    fs,           \* the served directory: file path -> [data, len, mtime]
    writes,       \* number of file writes so far
    routes,       \* routes.rs NanoWeb.routes: url -> CachedRoute
    responses,    \* routes.rs NanoWeb.responses: encoding -> (url -> ResponseBuffer)
    fastRoutes,   \* fast_routes.rs UltraFastServer.routes / server.rs NanoWeb.routes
    bufResponses, \* registered_buffers.rs RegisteredBufferManager.responses
    resp,         \* the response to the last request
    breq,         \* response builders: the builder called and its arguments
    built,        \* response builders: the response it produced, or NotBuilt
    refreshing,   \* routes.rs: the refresh_if_modified call in progress, or NoRefresh
    prev,         \* a response written earlier, kept for comparison, or NoResp
    conn,         \* one client connection: what was sent, read, buffered and answered
    wire,         \* the bytes a handler wrote for the last request, or NoWire
    compression,  \* one call of CompressedContent::new: its arguments and its result
    drain,        \* the write of one response: the bytes accepted so far and what followed
    racers,       \* routes.rs: concurrent refresh_if_modified calls on one route
    ring,         \* server_multiuring.rs run_worker: connection table and operations in flight
    acceptor,     \* the accept loop of the running server
    limiter       \* security.rs RateLimiter: the requests map and the answers given

vvars == <<rawPath, vres>>

nvars == <<accept, content, nres>>

cvars == <<server, spa_mode, dev>>

svars == <<server, spa_mode, dev, booted, faulty, staticCache, fs, writes, routes, responses,
           fastRoutes, bufResponses, resp>>

bvars == <<breq, built>>

\* the variables of the parts added to the first three
pvars == <<refreshing>>

hvars == <<prev>>

kvars == <<conn>>

\* the variables of the parts added after those
zvars == <<compression>>

\* the variables of the parts added last
mvars == <<drain, racers, ring, acceptor, limiter>>

lvars == <<wire, zvars, mvars>>

xvars == <<bvars, pvars, hvars, kvars, lvars>>

vars == <<rawPath, vres, accept, content, nres, server, spa_mode, dev, booted, faulty,
          staticCache, fs, writes, routes, responses, fastRoutes, bufResponses, resp, xvars>>

(***************************************************************************)
(* Bytes that the code names as character literals.                        *)
(***************************************************************************)
SLASH == 47
DOT == 46
PERCENT == 37
NUL == 0
BACKSLASH == 92
CH_a == 97

\* the characters rejected inside a component: \ NUL < > | ? *
DangerousChars == {BACKSLASH, NUL, 60, 62, 124, 63, 42}

MAX_PATH_LENGTH == 1024
MAX_PATH_COMPONENTS == 32
MAX_COMPONENT_LENGTH == 255

(***************************************************************************)
(* Generic sequence helpers (str methods of the Rust standard library).    *)
(***************************************************************************)
Rep(c, n) == [i \in 1..n |-> c]

starts_with(s, p) == Len(s) >= Len(p) /\ SubSeq(s, 1, Len(p)) = p

ends_with(s, p) == Len(s) >= Len(p) /\ SubSeq(s, Len(s) - Len(p) + 1, Len(s)) = p

\* s.contains(p) for a substring p
contains(s, p) == \E i \in 1..(Len(s) - Len(p) + 1) : SubSeq(s, i, i + Len(p) - 1) = p

Indices(s) == [i \in 1..Len(s) |-> i]

\* s.split(c): the pieces between the occurrences of c (n occurrences give n+1 pieces)
split(s, c) ==
    LET IsSep(i) == s[i] = c
        seps == SelectSeq(Indices(s), IsSep)
        n == Len(seps)
        from(k) == IF k = 1 THEN 1 ELSE seps[k - 1] + 1
        to(k) == IF k = n + 1 THEN Len(s) ELSE seps[k] - 1
    IN  [k \in 1..(n + 1) |-> SubSeq(s, from(k), to(k))]

RECURSIVE join(_, _)
\* parts.join(sep)
join(parts, sep) ==
    IF Len(parts) = 0 THEN <<>>
    ELSE IF Len(parts) = 1 THEN parts[1]
    ELSE parts[1] \o sep \o join(Tail(parts), sep)

(***************************************************************************)
(* urlencoding::decode as called by validate_request_path: every "%XY"     *)
(* with two hex digits becomes the byte 16*X+Y, any other '%' stays, and   *)
(* the call fails when the decoded bytes are not UTF-8.                    *)
(***************************************************************************)
HexVal(c) ==
    IF c \in 48..57 THEN c - 48
    ELSE IF c \in 97..102 THEN c - 87
    ELSE IF c \in 65..70 THEN c - 55
    ELSE -1

IsHex(c) == HexVal(c) >= 0

EscapeAt(s, i) ==
    /\ s[i] = PERCENT
    /\ i + 2 <= Len(s)
    /\ IsHex(s[i + 1])
    /\ IsHex(s[i + 2])

\* mutant: the path is used without percent-decoding
decode_binary_none(s) == s

decode_binary(s) ==
    LET InTail(i) == \/ (i > 1 /\ EscapeAt(s, i - 1))
                     \/ (i > 2 /\ EscapeAt(s, i - 2))
        Kept(i) == ~InTail(i)
        kept == SelectSeq(Indices(s), Kept)
    IN  IF \A i \in 1..Len(s) : s[i] # PERCENT THEN s
        ELSE [k \in 1..Len(kept) |->
                 IF EscapeAt(s, kept[k])
                 THEN 16 * HexVal(s[kept[k] + 1]) + HexVal(s[kept[k] + 2])
                 ELSE s[kept[k]]]

RECURSIVE Utf8From(_, _)
\* String::from_utf8 on b[i..]: well-formed UTF-8 (RFC 3629 table)
Utf8From(b, i) ==
    LET n == Len(b)
        Cont(j) == j <= n /\ b[j] \in 128..191
    IN  IF i > n THEN TRUE
        ELSE IF b[i] < 128 THEN Utf8From(b, i + 1)
        ELSE IF b[i] \in 194..223 THEN Cont(i + 1) /\ Utf8From(b, i + 2)
        ELSE IF b[i] = 224 THEN i + 1 <= n /\ b[i + 1] \in 160..191 /\ Cont(i + 2) /\ Utf8From(b, i + 3)
        ELSE IF b[i] = 237 THEN i + 1 <= n /\ b[i + 1] \in 128..159 /\ Cont(i + 2) /\ Utf8From(b, i + 3)
        ELSE IF b[i] \in 225..239 THEN Cont(i + 1) /\ Cont(i + 2) /\ Utf8From(b, i + 3)
        ELSE IF b[i] = 240 THEN i + 1 <= n /\ b[i + 1] \in 144..191 /\ Cont(i + 2) /\ Cont(i + 3) /\ Utf8From(b, i + 4)
        ELSE IF b[i] \in 241..243 THEN Cont(i + 1) /\ Cont(i + 2) /\ Cont(i + 3) /\ Utf8From(b, i + 4)
        ELSE IF b[i] = 244 THEN i + 1 <= n /\ b[i + 1] \in 128..143 /\ Cont(i + 2) /\ Cont(i + 3) /\ Utf8From(b, i + 4)
        ELSE FALSE

IsUtf8(b) == IF \A i \in 1..Len(b) : b[i] < 128 THEN TRUE ELSE Utf8From(b, 1)

(***************************************************************************)
(* security.rs: validate_request_path                                      *)
(***************************************************************************)
Ok(p) == [ok |-> TRUE, path |-> p, err |-> "none"]
Err(e) == [ok |-> FALSE, path |-> <<>>, err |-> e]

\* mutant: the component length limit is exclusive
ComponentError_ge(component) ==
    IF component = <<DOT, DOT>> \/ component = <<DOT>> THEN "Path traversal attempt detected"
    ELSE IF \E i \in 1..Len(component) : component[i] \in DangerousChars
        THEN "Invalid characters in path component"
    ELSE IF component[1] = DOT THEN "Access to hidden files denied"
    ELSE IF Len(component) >= MAX_COMPONENT_LENGTH THEN "Path component too long"
    ELSE "none"

\* the body of the for loop for one non-empty component: the first check that bails
ComponentError(component) ==
    IF component = <<DOT, DOT>> \/ component = <<DOT>> THEN "Path traversal attempt detected"
    ELSE IF \E i \in 1..Len(component) : component[i] \in DangerousChars
        THEN "Invalid characters in path component"
    ELSE IF component[1] = DOT THEN "Access to hidden files denied"
    ELSE IF Len(component) > MAX_COMPONENT_LENGTH THEN "Path component too long"
    ELSE "none"

validate_request_path(path) ==
    IF Len(path) > MAX_PATH_LENGTH THEN Err("Path too long")
    ELSE IF ~starts_with(path, <<SLASH>>) THEN Err("Path must start with /")
    ELSE LET decoded == decode_binary(path) IN
    IF ~IsUtf8(decoded) THEN Err("Invalid URL encoding")
    ELSE IF \E i \in 1..Len(decoded) : decoded[i] = NUL THEN Err("Path contains null bytes")
    ELSE LET components == Tail(split(decoded, SLASH))
             NonEmpty(c) == c # <<>>
             Bails(k) == components[k] # <<>> /\ ComponentError(components[k]) # "none"
             bad == SelectSeq(Indices(components), Bails)
             sanitized_components == SelectSeq(components, NonEmpty)
         IN
    IF Len(components) > MAX_PATH_COMPONENTS THEN Err("Too many path components")
    ELSE IF Len(bad) > 0 THEN Err(ComponentError(components[bad[1]]))
    ELSE IF Len(sanitized_components) = 0 THEN Ok(<<SLASH>>)
    ELSE Ok(<<SLASH>> \o join(sanitized_components, <<SLASH>>))

(***************************************************************************)
(* Inputs of the validator                                                 *)
(***************************************************************************)
MaxLen == 5

\* '/', '.', 'a', '%', '2', 'e', 'f'
Alphabet == {SLASH, DOT, CH_a, PERCENT, 50, 101, 102}

RECURSIVE SeqsUpTo(_, _)
SeqsUpTo(S, n) ==
    IF n = 0 THEN {<<>>}
    ELSE LET shorter == SeqsUpTo(S, n - 1)
         IN  shorter \cup {Append(s, c) : s \in {t \in shorter : Len(t) = n - 1}, c \in S}

ShortPaths == SeqsUpTo(Alphabet, MaxLen)

RECURSIVE PathOfShape(_)
\* "/" c1 "/" c2 ... where component k is lens[k] letters 'a'
PathOfShape(lens) ==
    IF Len(lens) = 0 THEN <<>>
    ELSE <<SLASH>> \o Rep(CH_a, lens[1]) \o PathOfShape(Tail(lens))

Shapes ==
    {Rep(m, n) : n \in 1..4, m \in 253..257}
    \cup {Rep(m, n) : n \in 30..34, m \in 0..2}
    \cup {<<255, 255, 255, k>> : k \in 252..256}
    \cup {<<255, 255, 255, 254, 0>>, <<255, 255, 254, 255, 1>>, <<1, 256>>, <<256, 1>>}

LongPaths == {PathOfShape(sh) : sh \in Shapes}

WellKnown == <<DOT, 119, 101, 108, 108, 45, 107, 110, 111, 119, 110>>   \* .well-known
P_env == <<SLASH, DOT, 101, 110, 118>>                                   \* /.env
P_secret == <<SLASH, DOT, 115, 101, 99, 114, 101, 116>>                  \* /.secret
P_wk_security == <<SLASH>> \o WellKnown \o <<SLASH, 115, 101, 99, 46, 116, 120, 116>>  \* /.well-known/sec.txt
P_wk_acme == <<SLASH>> \o WellKnown \o <<SLASH, 97, 99, 109, 101, SLASH, 116>>         \* /.well-known/acme/t
P_wk_only == <<SLASH>> \o WellKnown                                      \* /.well-known
P_wk_suffix == <<SLASH>> \o WellKnown \o <<CH_a>>                         \* /.well-knowna

NamedPaths ==
    {P_env, P_secret, P_wk_security, P_wk_acme, P_wk_only, P_wk_suffix,
     <<SLASH, CH_a, PERCENT, 48, 48>>,          \* /a%00
     <<SLASH, CH_a, NUL>>,                      \* /a\0
     <<SLASH, CH_a, 63, CH_a>>,                 \* /a?a
     <<SLASH, CH_a, BACKSLASH, DOT, DOT>>,      \* /a\..
     <<SLASH, PERCENT, 50, 101, PERCENT, 50, 69, SLASH, CH_a>>,  \* /%2e%2E/a
     <<SLASH, PERCENT, 50, 53, 50, 101>>,       \* /%252e
     <<SLASH, PERCENT, 99, 51, PERCENT, 97, 57>>, \* /%c3%a9 (UTF-8 e-acute)
     <<SLASH, PERCENT, 102, 102>>}              \* /%ff

ValidatorInputs == ShortPaths \cup LongPaths \cup NamedPaths

NoResult == [ok |-> FALSE, path |-> <<>>, err |-> "not called"]

(***************************************************************************)
(* File contents and their compressed variants (compression.rs)            *)
(***************************************************************************)
COMPRESS_THRESHOLD == 1024

\* Bytes: the codec that produced them and the plain body they encode, which
\* is identified by its data and its length
Plain(data, len) == [codec |-> "identity", data |-> data, len |-> len]
None == [codec |-> "none", data |-> 0, len |-> 0]
is_some(b) == b # None

gzip_compress(plain) == [plain EXCEPT !.codec = "gzip"]
brotli_compress(plain) == [plain EXCEPT !.codec = "br"]
zstd_compress(plain) == [plain EXCEPT !.codec = "zstd"]

\* CompressedContent::new
CompressedContent_new(plain, should_compress) ==
    IF ~should_compress \/ plain.len < COMPRESS_THRESHOLD
    THEN [plain |-> plain, gzip |-> None, brotli |-> None, zstd |-> None]
    ELSE [plain |-> plain,
          gzip |-> gzip_compress(plain),
          brotli |-> brotli_compress(plain),
          zstd |-> zstd_compress(plain)]

\* the codecs CompressedContent::new runs
Codecs == {"gzip", "br", "zstd"}

\* the Result of one codec: its bytes, or None when the codec fails
Compressed(plain, codec, failing) ==
    IF codec \in failing THEN None
    ELSE CASE codec = "gzip" -> gzip_compress(plain)
           [] codec = "br" -> brotli_compress(plain)
           [] codec = "zstd" -> zstd_compress(plain)

\* mutant: a codec that fails leaves its variant out and the call succeeds
CompressedContent_new_partial(plain, should_compress, failing) ==
    IF ~should_compress \/ plain.len < COMPRESS_THRESHOLD
    THEN [ok |-> TRUE, value |-> CompressedContent_new(plain, FALSE)]
    ELSE [ok |-> TRUE,
          value |-> [plain |-> plain,
                     gzip |-> Compressed(plain, "gzip", failing),
                     brotli |-> Compressed(plain, "br", failing),
                     zstd |-> Compressed(plain, "zstd", failing)]]

\* CompressedContent::new as a Result: gzip?, brotli? and zstd? return the
\* error of a failing codec instead of the struct
CompressedContent_new_result(plain, should_compress, failing) ==
    IF ~should_compress \/ plain.len < COMPRESS_THRESHOLD
    THEN [ok |-> TRUE, value |-> CompressedContent_new(plain, FALSE)]
    ELSE IF \E codec \in Codecs : Compressed(plain, codec, failing) = None
    THEN [ok |-> FALSE, value |-> CompressedContent_new(Plain(0, 0), FALSE)]
    ELSE [ok |-> TRUE,
          value |-> [plain |-> plain,
                     gzip |-> Compressed(plain, "gzip", failing),
                     brotli |-> Compressed(plain, "br", failing),
                     zstd |-> Compressed(plain, "zstd", failing)]]

(***************************************************************************)
(* Accept-Encoding negotiation                                             *)
(***************************************************************************)
S_br == <<98, 114>>
S_zstd == <<122, 115, 116, 100>>
S_gzip == <<103, 122, 105, 112>>
S_deflate == <<100, 101, 102, 108, 97, 116, 101>>
S_vibrant == <<118, 105, 98, 114, 97, 110, 116>>
S_identity == <<105, 100, 101, 110, 116, 105, 116, 121>>

\* response_buffer.rs: Encoding::from_accept_encoding
from_accept_encoding(a) ==
    IF contains(a, S_br) THEN "Brotli"
    ELSE IF contains(a, S_zstd) THEN "Zstd"
    ELSE IF contains(a, S_gzip) THEN "Gzip"
    ELSE "Identity"

\* compression.rs: CompressedContent::get_best_encoding
get_best_encoding(c, a) ==
    IF contains(a, S_zstd) /\ is_some(c.zstd) THEN [encoding |-> "zstd", body |-> c.zstd]
    ELSE IF contains(a, S_br) /\ is_some(c.brotli) THEN [encoding |-> "br", body |-> c.brotli]
    ELSE IF contains(a, S_gzip) /\ is_some(c.gzip) THEN [encoding |-> "gzip", body |-> c.gzip]
    ELSE [encoding |-> "identity", body |-> c.plain]

\* registered_buffers.rs: Encoding::all_priority
all_priority == <<"Brotli", "Zstd", "Gzip", "Plain">>

Key(path, encoding) == [path |-> path, encoding |-> encoding]

NoMatch == Key(<<>>, "none")

\* registered_buffers.rs: RegisteredBufferManager::best_match over the keys
\* of self.responses
best_match(keys, path, a) ==
    LET accepts(encoding) ==
            CASE encoding = "Plain" -> TRUE
              [] encoding = "Brotli" -> contains(a, S_br)
              [] encoding = "Gzip" -> contains(a, S_gzip)
              [] encoding = "Zstd" -> contains(a, S_zstd)
        Hit(i) == accepts(all_priority[i]) /\ Key(path, all_priority[i]) \in keys
        hits == SelectSeq(Indices(all_priority), Hit)
    IN  IF Len(hits) = 0 THEN NoMatch ELSE Key(path, all_priority[hits[1]])

(***************************************************************************)
(* Inputs of the negotiation: headers made of up to MaxTokens tokens       *)
(***************************************************************************)
MaxTokens == 2

Tokens == {S_br, S_zstd, S_gzip, S_deflate, S_vibrant, S_identity}

\* ";q=0.5"
Q_param == <<59, 113, 61, 48, 46, 53>>

Items == Tokens \cup {t \o Q_param : t \in Tokens}

\* "," and ", "
Separators == {<<44>>, <<44, 32>>}

RECURSIVE HeadersOf(_)
HeadersOf(n) ==
    IF n = 0 THEN {<<>>}
    ELSE IF n = 1 THEN Items
    ELSE {h \o sep \o it : h \in HeadersOf(n - 1), sep \in Separators, it \in Items}

AcceptHeaders == UNION {HeadersOf(n) : n \in 0..MaxTokens}

NegotiationContents ==
    {CompressedContent_new(Plain(1, len), TRUE) : len \in {COMPRESS_THRESHOLD - 1, COMPRESS_THRESHOLD}}

NotNegotiated == [from_accept |-> "none", best |-> "none", matched |-> "none"]

P_file == <<SLASH, 102>>    \* /f

\* the keys RegisteredBufferManager::new registers for one route with content c
KeysOfContent(path, c) ==
    {Key(path, "Plain")}
    \cup (IF is_some(c.brotli) THEN {Key(path, "Brotli")} ELSE {})
    \cup (IF is_some(c.gzip) THEN {Key(path, "Gzip")} ELSE {})
    \cup (IF is_some(c.zstd) THEN {Key(path, "Zstd")} ELSE {})

(***************************************************************************)
(* MIME classification (mime_types.rs) for the extensions of the model's   *)
(* files                                                                   *)
(***************************************************************************)
Mime(top, sub) == [top |-> top, sub |-> sub]

DEFAULT_MIME == Mime("application", "octet-stream")

EXT_html == <<DOT, 104, 116, 109, 108>>
EXT_png == <<DOT, 112, 110, 103>>

\* MimeGuess::from_path(path).first(), or the default
GuessMime(path) ==
    IF ends_with(path, EXT_html) /\ Len(path) > Len(EXT_html) THEN Mime("text", "html")
    ELSE IF ends_with(path, EXT_png) /\ Len(path) > Len(EXT_png) THEN Mime("image", "png")
    ELSE DEFAULT_MIME

is_compressible(m) ==
    m \in {Mime("text", "html"), Mime("text", "css"), Mime("text", "javascript"),
           Mime("text", "plain"), Mime("text", "csv"), Mime("text", "markdown"),
           Mime("text", "cache-manifest"), Mime("application", "json"),
           Mime("application", "ld+json"), Mime("application", "manifest+json"),
           Mime("text", "xml"), Mime("application", "xml"), Mime("application", "rss+xml"),
           Mime("application", "atom+xml"), Mime("image", "svg+xml")}

is_templatable(m) == m = Mime("text", "html")

is_asset(m) ==
    \/ m \in {Mime("text", "css"), Mime("text", "javascript")}
    \/ m.top = "image"
    \/ m.top = "font"
    \/ m = Mime("application", "vnd.ms-fontobject")
    \/ m.top = "audio" \/ m.top = "video"

get_cache_control(m) ==
    IF is_asset(m) THEN "public, max-age=31536000, immutable"
    ELSE IF m = Mime("text", "html") THEN "public, max-age=900"
    ELSE "public, max-age=3600"

get_mime_config(path) ==
    [mime_type |-> GuessMime(path),
     is_compressible |-> is_compressible(GuessMime(path)),
     is_templatable |-> is_templatable(GuessMime(path))]

(***************************************************************************)
(* The served directory                                                    *)
(***************************************************************************)
INDEX_HTML == <<SLASH, 105, 110, 100, 101, 120>> \o EXT_html     \* "/index.html"

FP_index == Tail(INDEX_HTML)                                       \* index.html
FP_dindex == <<100>> \o INDEX_HTML                                 \* d/index.html
FP_png == <<CH_a>> \o EXT_png                                      \* a.png
FP_env == Tail(P_env)                                              \* .env

FP_nindex == <<110>> \o INDEX_HTML \o INDEX_HTML                    \* n/index.html/index.html
FP_iindex == FP_index \o INDEX_HTML                                \* index.html/index.html

\* the order in which WalkDir yields the files that exist
FileOrder == <<FP_env, FP_png, FP_dindex, FP_index, FP_nindex, FP_iindex>>

\* the files of the served directory
Files == {FP_env, FP_png, FP_dindex, FP_index}

MaxWrites == 1
MaxTime == 2
TicksPerSec == 2

FileLens == {COMPRESS_THRESHOLD - 1, COMPRESS_THRESHOLD}

\* whole seconds since the epoch of an mtime
as_secs(mtime) == mtime \div TicksPerSec

\* template.rs render_template on a placeholder-free body of this model:
\* the rendered body is another body of the same length
render_template(plain) == [plain EXCEPT !.data = plain.data + 10]

(***************************************************************************)
(* Maps (DashMap)                                                          *)
(***************************************************************************)
EmptyMap == <<>>

Put(m, k, v) == [x \in (DOMAIN m) \cup {k} |-> IF x = k THEN v ELSE m[x]]

Has(m, k) == k \in DOMAIN m

(***************************************************************************)
(* routes.rs: ResponseCache and NanoWeb                                    *)
(***************************************************************************)
EncodingALL == <<"Identity", "Gzip", "Brotli", "Zstd">>

Encodings == {EncodingALL[i] : i \in 1..Len(EncodingALL)}

ResponseCache_new == [e \in Encodings |-> EmptyMap]

NoBuffer == [body |-> None, content_type |-> DEFAULT_MIME, content_encoding |-> "none",
             etag |-> <<>>, last_modified |-> -1, cache_control |-> "none"]

\* ResponseBuffer::new as routes.rs calls it
ResponseBuffer_new(body, ct, ce, etag, lm, cc) ==
    [body |-> body, content_type |-> ct, content_encoding |-> ce,
     etag |-> etag, last_modified |-> lm, cache_control |-> cc]

\* mutant: no fallback to the identity entry
ResponseCache_get_exact(rc, path, encoding) ==
    IF Has(rc[encoding], path) THEN rc[encoding][path]
    ELSE NoBuffer

\* ResponseCache::get
ResponseCache_get(rc, path, encoding) ==
    IF Has(rc[encoding], path) THEN rc[encoding][path]
    ELSE IF Has(rc["Identity"], path) THEN rc["Identity"][path]
    ELSE NoBuffer

\* ResponseCache::insert
ResponseCache_insert(rc, path, encoding, buf) ==
    [rc EXCEPT ![encoding] = Put(rc[encoding], path, buf)]

\* NanoWeb::get_response
get_response(rc, path, a) == ResponseCache_get(rc, path, from_accept_encoding(a))

file_path_to_url(file_path) ==
    <<SLASH>> \o [i \in 1..Len(file_path) |->
                    IF file_path[i] = BACKSLASH THEN SLASH ELSE file_path[i]]

\* "\"{:x}-{:x}\"" of the mtime in seconds and the body length
generate_etag(modified, plain) == <<as_secs(modified), plain.len>>

\* "%a, %d %b %Y %H:%M:%S GMT": the date to the second
format_http_date(time) == as_secs(time)

\* the steps of create_route up to the CompressedContent
ProcessFile(file_path, file) ==
    LET mime_config == get_mime_config(file_path)
        read == Plain(file.data, file.len)
        processed_content == IF mime_config.is_templatable THEN render_template(read) ELSE read
    IN  CompressedContent_new(processed_content, mime_config.is_compressible)

\* the I/O and compression steps of a refresh that can fail
Faults == {"none", "metadata", "read", "compress"}

\* the inserts of NanoWeb::create_route, which follow every fallible step: the
\* url, the route and the response cache after them
create_route_inserted(rc, file_path, file) ==
    LET modified == file.mtime
        mime_config == get_mime_config(file_path)
        compressed == ProcessFile(file_path, file)
        etag == generate_etag(modified, compressed.plain)
        lm == format_http_date(modified)
        ct == mime_config.mime_type
        cc == get_cache_control(mime_config.mime_type)
        route == [content |-> compressed, path |-> file_path, modified |-> modified]
        url_path == file_path_to_url(file_path)
        r1 == ResponseCache_insert(rc, url_path, "Identity",
                  ResponseBuffer_new(compressed.plain, ct, "none", etag, lm, cc))
        r2 == IF is_some(compressed.gzip)
              THEN ResponseCache_insert(r1, url_path, "Gzip",
                       ResponseBuffer_new(compressed.gzip, ct, "gzip", etag, lm, cc))
              ELSE r1
        r3 == IF is_some(compressed.brotli)
              THEN ResponseCache_insert(r2, url_path, "Brotli",
                       ResponseBuffer_new(compressed.brotli, ct, "br", etag, lm, cc))
              ELSE r2
        r4 == IF is_some(compressed.zstd)
              THEN ResponseCache_insert(r3, url_path, "Zstd",
                       ResponseBuffer_new(compressed.zstd, ct, "zstd", etag, lm, cc))
              ELSE r3
    IN  [ok |-> TRUE, url_path |-> url_path, route |-> route, responses |-> r4,
         identity |-> r1]

\* the element of a singleton set
Only(S) == CHOOSE x \in S : TRUE

\* mutant: the identity entry is inserted before the content is compressed
create_route_identity_first(rc, file_path, file, fault) ==
    Only({IF fault = "compress" THEN [c EXCEPT !.ok = FALSE, !.responses = c.identity]
          ELSE IF fault = "read" THEN [c EXCEPT !.ok = FALSE, !.responses = rc]
          ELSE c :
          c \in {create_route_inserted(rc, file_path, file)}})

\* NanoWeb::create_route: std::fs::read, metadata.modified and
\* CompressedContent::new return their error before the first insert
create_route(rc, file_path, file, fault) ==
    Only({IF fault \in {"read", "compress"} THEN [c EXCEPT !.ok = FALSE, !.responses = rc]
          ELSE c :
          c \in {create_route_inserted(rc, file_path, file)}})

RECURSIVE trim_end_matches(_, _)
trim_end_matches(s, pat) ==
    IF ends_with(s, pat) THEN trim_end_matches(SubSeq(s, 1, Len(s) - Len(pat)), pat) ELSE s

\* the directory alias of an index file's url
dir_path_of(url_path) ==
    IF url_path = INDEX_HTML THEN <<SLASH>>
    ELSE trim_end_matches(url_path, INDEX_HTML) \o <<SLASH>>

\* no step fails for any file
NoFaults == [f \in Files |-> "none"]

\* the file_paths of populate_routes: WalkDir entries whose metadata() is Ok
file_paths(disk, flt) ==
    SelectSeq(FileOrder, LAMBDA f : f \in DOMAIN disk /\ flt[f] # "metadata")

\* the filter_map of populate_routes: the files whose create_route is Ok
created(files, flt) == SelectSeq(files, LAMBDA f : flt[f] \notin {"read", "compress"})

RECURSIVE CreateAll(_, _, _, _)
\* the parallel map of populate_routes: create_route for every file
CreateAll(rc, files, disk, flt) ==
    IF files = <<>> THEN rc
    ELSE CreateAll(create_route(rc, files[1], disk[files[1]], flt[files[1]]).responses,
                   Tail(files), disk, flt)

RECURSIVE AliasCompressed(_, _, _, _)
\* mutant: the alias loop copies the entry of an encoding only when the file
\* has that compressed variant, and never the identity entry
AliasCompressed(rc, url_path, dir_path, encs) ==
    IF encs = <<>> THEN rc
    ELSE LET next == IF encs[1] # "Identity" /\ Has(rc[encs[1]], url_path)
                     THEN ResponseCache_insert(rc, dir_path, encs[1], rc[encs[1]][url_path])
                     ELSE rc
         IN  AliasCompressed(next, url_path, dir_path, Tail(encs))

RECURSIVE AliasResponses(_, _, _, _)
\* populate_routes lines 139-143: copy the entries of url_path to dir_path
AliasResponses(rc, url_path, dir_path, encs) ==
    IF encs = <<>> THEN rc
    ELSE LET response == ResponseCache_get(rc, url_path, encs[1])
             next == IF response # NoBuffer
                     THEN ResponseCache_insert(rc, dir_path, encs[1], response)
                     ELSE rc
         IN  AliasResponses(next, url_path, dir_path, Tail(encs))

RECURSIVE InsertAll(_, _, _)
\* the for loop of populate_routes over the created routes
InsertAll(st, files, disk) ==
    IF files = <<>> THEN st
    ELSE LET url_path == file_path_to_url(files[1])
             route == [content |-> ProcessFile(files[1], disk[files[1]]),
                       path |-> files[1], modified |-> disk[files[1]].mtime]
             aliased ==
                 IF ends_with(url_path, INDEX_HTML)
                 THEN [routes |-> Put(st.routes, dir_path_of(url_path), route),
                       responses |-> AliasResponses(st.responses, url_path,
                                                    dir_path_of(url_path), EncodingALL)]
                 ELSE st
         IN  InsertAll([aliased EXCEPT !.routes = Put(aliased.routes, url_path, route)],
                       Tail(files), disk)

\* NanoWeb::populate_routes
populate_routes(disk, flt) ==
    InsertAll([routes |-> EmptyMap,
               responses |-> CreateAll(ResponseCache_new, file_paths(disk, flt), disk, flt)],
              created(file_paths(disk, flt), flt), disk)

(***************************************************************************)
(* fast_routes.rs UltraFastServer and server.rs NanoWeb: routes only       *)
(***************************************************************************)
MMAP_THRESHOLD == 8192

\* create_fast_route / server.rs create_route: mmap tells whether the call
\* inserted the url into static_cache, which it does for a file of more than
\* 8192 bytes before it reads and compresses the file
create_fast_route(file_path, file, fault) ==
    [ok |-> fault \notin {"read", "compress"},
     mmap |-> file.len > MMAP_THRESHOLD,
     url_path |-> file_path_to_url(file_path),
     route |-> [content |-> ProcessFile(file_path, file), path |-> file_path,
                modified |-> file.mtime]]

RECURSIVE InsertFast(_, _, _)
\* the for loop of populate_routes over the created routes
InsertFast(rts, files, disk) ==
    IF files = <<>> THEN rts
    ELSE LET cr == create_fast_route(files[1], disk[files[1]], "none")
             r1 == Put(rts, cr.url_path, cr.route)
             r2 == IF ends_with(cr.url_path, INDEX_HTML)
                   THEN Put(r1, dir_path_of(cr.url_path), cr.route)
                   ELSE r1
         IN  InsertFast(r2, Tail(files), disk)

\* fast_routes.rs / server.rs populate_routes: the routes
populate_fast_routes(disk, flt) == InsertFast(EmptyMap, created(file_paths(disk, flt), flt), disk)

\* the static_cache after populate_routes: the urls create_fast_route
\* inserted, whether or not the call went on to succeed
populate_static_cache(disk, flt) ==
    {file_path_to_url(file_paths(disk, flt)[i]) :
        i \in {j \in 1..Len(file_paths(disk, flt)) :
                  create_fast_route(file_paths(disk, flt)[j], disk[file_paths(disk, flt)[j]],
                                    flt[file_paths(disk, flt)[j]]).mmap}}

(***************************************************************************)
(* registered_buffers.rs: RegisteredBufferManager::new                     *)
(***************************************************************************)
build_http_response(route, encoding) ==
    CASE encoding = "Plain" -> route.content.plain
      [] encoding = "Brotli" -> route.content.brotli
      [] encoding = "Gzip" -> route.content.gzip
      [] encoding = "Zstd" -> route.content.zstd

RegisteredKeys(rts) ==
    {Key(path, all_priority[i]) : path \in DOMAIN rts, i \in 1..Len(all_priority)}

RegisteredBufferManager_new(rts) ==
    LET present == {k \in RegisteredKeys(rts) :
                        is_some(build_http_response(rts[k.path], k.encoding))}
        root == {Key(<<SLASH>>, k.encoding) : k \in {x \in present : x.path = INDEX_HTML}}
    IN  [k \in present \cup root |->
            IF k \in present THEN build_http_response(rts[k.path], k.encoding)
            ELSE build_http_response(rts[INDEX_HTML], k.encoding)]

(***************************************************************************)
(* Requests and responses                                                  *)
(***************************************************************************)
P_root == <<SLASH>>
P_d == <<SLASH, 100>>                       \* /d
P_dslash == <<SLASH, 100, SLASH>>           \* /d/
P_png == file_path_to_url(FP_png)           \* /a.png
P_nope == <<SLASH, 110>>                    \* /n
P_health == <<SLASH, 95, 104, 101, 97, 108, 116, 104>>   \* /_health

RequestPaths == {P_root, INDEX_HTML, P_d, P_dslash, P_png, P_env, P_nope,
                 <<SLASH>> \o P_png}

RequestMethods == {"GET", "POST"}

\* "", "gzip, deflate, br, zstd"
A_browser == S_gzip \o <<44, 32>> \o S_deflate \o <<44, 32>> \o S_br \o <<44, 32>> \o S_zstd

RequestAccepts == {<<>>, A_browser}

NoKey == <<>>

NoResp == [method |-> "none", path |-> <<>>, accept |-> <<>>, status |-> 0,
           key |-> NoKey, encoding |-> "none", body |-> None, buffer |-> NoBuffer,
           refresh |-> "none"]

Response(method, path, a, status, key, encoding, body) ==
    [method |-> method, path |-> path, accept |-> a, status |-> status,
     key |-> key, encoding |-> encoding, body |-> body, buffer |-> NoBuffer,
     refresh |-> "none"]

IdleServer ==
    /\ server = "none"
    /\ spa_mode = FALSE
    /\ dev = FALSE
    /\ booted = FALSE
    /\ faulty = EmptyMap
    /\ staticCache = {}
    /\ fs = EmptyMap
    /\ writes = 0
    /\ routes = EmptyMap
    /\ responses = ResponseCache_new
    /\ fastRoutes = EmptyMap
    /\ bufResponses = EmptyMap
    /\ resp = NoResp

IdleValidate == rawPath = <<>> /\ vres = NoResult

NotBuilt == [status |-> 0, headers |-> <<>>, body |-> <<>>]

NoBuild == [builder |-> "none"]

IdleBuild == breq = NoBuild /\ built = NotBuilt

NoRefresh == [active |-> FALSE, url_path |-> <<>>, pending |-> <<>>]

IdlePublish == refreshing = NoRefresh

IdleHistory == prev = NoResp

NoConn == [state |-> "none"]

IdleConn == conn = NoConn

NoWire == [status |-> 0]

NoCompression == [called |-> FALSE]

NoDrain == [phase |-> "none"]

NoRacers == [phase |-> "none"]

NoRing == [phase |-> "none"]

NoAcceptor == [phase |-> "none"]

NoLimiter == [phase |-> "none"]

IdleLast ==
    /\ drain = NoDrain
    /\ racers = NoRacers
    /\ ring = NoRing
    /\ acceptor = NoAcceptor
    /\ limiter = NoLimiter

IdleLater == wire = NoWire /\ compression = NoCompression /\ IdleLast

\* every variable but those of the last parts
fvars == <<svars, vvars, nvars, bvars, pvars, hvars, kvars, wire, zvars>>

\* the parts added to the first three are not running
IdleExtra == IdleBuild /\ IdlePublish /\ IdleHistory /\ IdleConn /\ IdleLater

IdleNegotiate ==
    /\ accept = <<>>
    /\ content = CompressedContent_new(Plain(0, 0), FALSE)
    /\ nres = NotNegotiated

\* the parts before the last ones are not running
IdleFirst ==
    /\ IdleValidate /\ IdleNegotiate
    /\ IdleBuild /\ IdlePublish /\ IdleHistory /\ IdleConn
    /\ wire = NoWire /\ compression = NoCompression

InitNegotiate ==
    /\ accept \in AcceptHeaders
    /\ content \in NegotiationContents
    /\ nres = NotNegotiated
    /\ IdleValidate
    /\ IdleServer
    /\ IdleExtra

Negotiate ==
    /\ nres = NotNegotiated
    /\ nres' = [from_accept |-> from_accept_encoding(accept),
                best |-> get_best_encoding(content, accept).encoding,
                matched |-> best_match(KeysOfContent(P_file, content), P_file, accept).encoding]
    /\ UNCHANGED <<accept, content, vvars, svars, xvars>>

NextNegotiate == Negotiate

SpecNegotiate == InitNegotiate /\ [][NextNegotiate]_vars

(***************************************************************************)
(* The validator applied to one input                                      *)
(***************************************************************************)
InitValidate ==
    /\ rawPath \in ValidatorInputs
    /\ vres = NoResult
    /\ IdleNegotiate
    /\ IdleServer
    /\ IdleExtra

Validate ==
    /\ vres = NoResult
    /\ vres' = validate_request_path(rawPath)
    /\ UNCHANGED <<rawPath, nvars, svars, xvars>>

NextValidate == Validate

SpecValidate == InitValidate /\ [][NextValidate]_vars

Called == vres # NoResult

(***************************************************************************)
(* The servers                                                             *)
(***************************************************************************)
Servers == {"nanoweb", "ultra", "uring", "multiuring"}

\* the length a file has when the server boots
InitialLens(file_path) ==
    IF is_compressible(GuessMime(file_path)) THEN FileLens ELSE {8}

InitServer ==
    /\ server \in Servers
    /\ spa_mode \in BOOLEAN
    /\ dev \in BOOLEAN
    /\ booted = FALSE
    /\ faulty = NoFaults
    /\ staticCache = {}
    /\ fs \in {d \in [Files -> [data : {1}, len : FileLens \cup {8}, mtime : {0}]] :
                  \A f \in Files : d[f].len \in InitialLens(f)}
    /\ writes = 0
    /\ routes = EmptyMap
    /\ responses = ResponseCache_new
    /\ fastRoutes = EmptyMap
    /\ bufResponses = EmptyMap
    /\ resp = NoResp

Init == InitServer /\ IdleValidate /\ IdleNegotiate /\ IdleExtra

\* start of the server: populate_routes, and for the io_uring servers
\* RegisteredBufferManager::new
Boot ==
    /\ ~booted
    /\ booted' = TRUE
    /\ IF server = "nanoweb"
       THEN /\ routes' = populate_routes(fs, faulty).routes
            /\ responses' = populate_routes(fs, faulty).responses
            /\ UNCHANGED <<fastRoutes, bufResponses, staticCache>>
       ELSE /\ fastRoutes' = populate_fast_routes(fs, faulty)
            /\ bufResponses' = IF server = "ultra" THEN bufResponses
                               ELSE RegisteredBufferManager_new(populate_fast_routes(fs, faulty))
            /\ staticCache' = populate_static_cache(fs, faulty)
            /\ UNCHANGED <<routes, responses>>
    /\ UNCHANGED <<cvars, faulty, fs, writes, resp, vvars, nvars, xvars>>

\* the environment rewrites a file: new content, and an mtime that is later
\* or, within the clock's granularity, the same
WriteFile(file_path, len, later) ==
    /\ booted
    /\ writes < MaxWrites
    /\ fs[file_path].mtime + later <= MaxTime
    /\ writes' = writes + 1
    /\ fs' = [fs EXCEPT ![file_path] = [data |-> 3 - @.data, len |-> len,
                                        mtime |-> @.mtime + later]]
    /\ UNCHANGED <<cvars, booted, faulty, staticCache, routes, responses, fastRoutes, bufResponses, resp,
                   vvars, nvars, xvars>>

\* routes.rs NanoWeb::refresh_if_modified: Ok(refreshed) or Err, and the index
\* after the call
refresh_if_modified(rts, rc, url_path, disk, fault) ==
    IF ~Has(rts, url_path)
    THEN [ok |-> TRUE, refreshed |-> FALSE, routes |-> rts, responses |-> rc]
    ELSE LET route == rts[url_path]
             metadata == disk[route.path]
         IN  IF fault = "metadata"
             THEN [ok |-> FALSE, refreshed |-> FALSE, routes |-> rts, responses |-> rc]
             ELSE IF metadata.mtime > route.modified
             THEN Only({IF cr.ok
                        THEN [ok |-> TRUE, refreshed |-> TRUE,
                              routes |-> Put(rts, cr.url_path, cr.route),
                              responses |-> cr.responses]
                        ELSE [ok |-> FALSE, refreshed |-> FALSE, routes |-> rts,
                              responses |-> cr.responses] :
                        cr \in {create_route(rc, route.path, metadata, fault)}})
             ELSE [ok |-> TRUE, refreshed |-> FALSE, routes |-> rts, responses |-> rc]

\* dev mode of the routes.rs server: refresh of one url
Refresh(url_path, fault) ==
    /\ server = "nanoweb"
    /\ booted
    /\ dev
    /\ routes' = refresh_if_modified(routes, responses, url_path, fs, fault).routes
    /\ responses' = refresh_if_modified(routes, responses, url_path, fs, fault).responses
    /\ UNCHANGED <<cvars, booted, faulty, staticCache, fs, writes, fastRoutes, bufResponses, resp, vvars, nvars, xvars>>

\* routes.rs NanoWeb::get_response for one request
GetResponse(path, a) ==
    /\ server = "nanoweb"
    /\ booted
    /\ resp = NoResp
    /\ resp' = [NoResp EXCEPT !.method = "GET", !.path = path, !.accept = a,
                              !.buffer = get_response(responses, path, a)]
    /\ UNCHANGED <<cvars, booted, faulty, staticCache, fs, writes, routes, responses, fastRoutes, bufResponses,
                   vvars, nvars, xvars>>

\* security.rs parse_request_line_secure on a request line "method path HTTP/1.1"
parse_request_line_secure(method, path) ==
    IF method \notin {"GET", "HEAD", "OPTIONS"} THEN Err("Method not allowed")
    ELSE IF Len(path) > MAX_PATH_LENGTH THEN Err("Request path too long")
    ELSE Ok(path)

\* ultra_server.rs lines 128-140: exact path, path + "/", then "/" in SPA mode
UltraLookup(rts, path, spa) ==
    IF Has(rts, path) THEN path
    ELSE IF ~ends_with(path, <<SLASH>>) /\ Has(rts, path \o <<SLASH>>) THEN path \o <<SLASH>>
    ELSE IF spa /\ Has(rts, <<SLASH>>) THEN <<SLASH>>
    ELSE NoKey

\* fast_routes.rs UltraFastServer::refresh_if_modified: Ok or Err, and the routes
\* after the call
fast_refresh_if_modified(rts, path, disk, fault) ==
    IF ~Has(rts, path) THEN [ok |-> TRUE, routes |-> rts]
    ELSE IF fault = "metadata" THEN [ok |-> FALSE, routes |-> rts]
    ELSE IF disk[rts[path].path].mtime > rts[path].modified
    THEN LET cr == create_fast_route(rts[path].path, disk[rts[path].path], fault)
         IN  IF cr.ok THEN [ok |-> TRUE, routes |-> Put(rts, path, cr.route)]
             ELSE [ok |-> FALSE, routes |-> rts]
    ELSE [ok |-> TRUE, routes |-> rts]

\* mutant: the handler refreshes the route whatever the mode
refresh_in_any_mode(d, rts, path, disk, fault) ==
    fast_refresh_if_modified(rts, path, disk, fault)

\* ultra_server.rs 150-162: the refresh runs only when config.dev is set
refresh_in_dev_mode(d, rts, path, disk, fault) ==
    IF d THEN fast_refresh_if_modified(rts, path, disk, fault)
    ELSE [ok |-> TRUE, routes |-> rts]

\* ultra_server.rs handle_ultra_fast_connection 88-166: the response to the
\* request line and the routes the handler leaves
UltraResponse(method, raw_path, a, fault) ==
    LET line == parse_request_line_secure(method, raw_path)
        v == validate_request_path(raw_path)
        key == UltraLookup(fastRoutes, v.path, spa_mode)
        refresh == refresh_in_dev_mode(dev, fastRoutes, v.path, fs, fault)
        route == IF refresh.ok /\ Has(refresh.routes, v.path) THEN refresh.routes[v.path]
                 ELSE fastRoutes[key]
        best == get_best_encoding(route.content, a)
    IN  IF ~line.ok \/ ~v.ok
        THEN [resp |-> Response(method, raw_path, a, 400, NoKey, "none", None),
              routes |-> fastRoutes]
        ELSE IF v.path = P_health
        THEN [resp |-> Response(method, raw_path, a, 200, NoKey, "health", None),
              routes |-> fastRoutes]
        ELSE IF key = NoKey
        THEN [resp |-> Response(method, raw_path, a, 404, NoKey, "none", None),
              routes |-> fastRoutes]
        ELSE [resp |-> [Response(method, raw_path, a, 200, key, best.encoding, best.body)
                           EXCEPT !.refresh = IF refresh.ok THEN "ok" ELSE "failed"],
              routes |-> refresh.routes]

\* ultra_server.rs handle_ultra_fast_connection
UltraRequest(method, raw_path, a, fault) ==
    /\ server = "ultra"
    /\ booted
    /\ resp = NoResp
    /\ resp' = UltraResponse(method, raw_path, a, fault).resp
    /\ fastRoutes' = UltraResponse(method, raw_path, a, fault).routes
    /\ UNCHANGED <<cvars, booted, faulty, staticCache, fs, writes, routes, responses, bufResponses, vvars, nvars, xvars>>

\* server_uring.rs handle_connection 135-183: the response to one parsed request
UringResponse(method, path, a) ==
    LET keys == DOMAIN bufResponses
        m == best_match(keys, path, a)
        fallback == IF spa_mode THEN best_match(keys, INDEX_HTML, a) ELSE NoMatch
        hit == IF m # NoMatch THEN m ELSE fallback
    IN  IF method # "GET" /\ method # "HEAD"
        THEN Response(method, path, a, 405, NoKey, "none", None)
        ELSE IF hit # NoMatch
        THEN Response(method, path, a, 200, hit.path, hit.encoding, bufResponses[hit])
        ELSE Response(method, path, a, 404, NoKey, "none", None)

\* server_uring.rs handle_connection, for one parsed request
UringRequest(method, path, a) ==
    /\ server = "uring"
    /\ booted
    /\ resp = NoResp
    /\ resp' = UringResponse(method, path, a)
    /\ UNCHANGED <<cvars, booted, faulty, staticCache, fs, writes, routes, responses, fastRoutes, bufResponses,
                   vvars, nvars, xvars>>

\* server_multiuring.rs parse_and_match: the matched key, or NoMatch
parse_and_match(method, req_path, a, keys, spa) ==
    IF method # "GET" THEN NoMatch
    ELSE best_match(keys, IF req_path = <<SLASH>> THEN INDEX_HTML ELSE req_path, a)

\* server_multiuring.rs run_worker 229-250: the response to one parsed request
MultiUringResponse(method, path, a) ==
    LET m == parse_and_match(method, path, a, DOMAIN bufResponses, spa_mode)
    IN  IF m = NoMatch
        THEN Response(method, path, a, 400, NoKey, "none", None)
        ELSE IF Has(bufResponses, m)
        THEN Response(method, path, a, 200, m.path, m.encoding, bufResponses[m])
        ELSE Response(method, path, a, 404, NoKey, "none", None)

\* server_multiuring.rs run_worker, OpType::Read with a complete request
MultiUringRequest(method, path, a) ==
    /\ server = "multiuring"
    /\ booted
    /\ resp = NoResp
    /\ resp' = MultiUringResponse(method, path, a)
    /\ UNCHANGED <<cvars, booted, faulty, staticCache, fs, writes, routes, responses, fastRoutes, bufResponses,
                   vvars, nvars, xvars>>

\* the response has been written and the handler returns
HandlerReturns ==
    /\ resp # NoResp
    /\ resp' = NoResp
    /\ UNCHANGED <<cvars, booted, faulty, staticCache, fs, writes, routes, responses, fastRoutes, bufResponses,
                   vvars, nvars, xvars>>

Next ==
    \/ Boot
    \/ HandlerReturns
    \/ \E f \in Files, len \in FileLens, later \in {0, 1} : WriteFile(f, len, later)
    \/ \E p \in RequestPaths, fault \in Faults : Refresh(p, fault)
    \/ \E p \in RequestPaths, a \in RequestAccepts : GetResponse(p, a)
    \/ \E m \in RequestMethods, p \in RequestPaths, a \in RequestAccepts, fault \in Faults :
           UltraRequest(m, p, a, fault)
    \/ \E m \in RequestMethods, p \in RequestPaths, a \in RequestAccepts : UringRequest(m, p, a)
    \/ \E m \in RequestMethods, p \in RequestPaths, a \in RequestAccepts :
           MultiUringRequest(m, p, a)

Spec == Init /\ [][Next]_vars

(***************************************************************************)
(* Properties of the validator, stated on the bytes of input and output    *)
(***************************************************************************)
\* s has a '/'-delimited component equal to c
HasComponent(s, c) ==
    \E i \in 1..(Len(s) - Len(c) + 1) :
        /\ SubSeq(s, i, i + Len(c) - 1) = c
        /\ (i = 1 \/ s[i - 1] = SLASH)
        /\ (i + Len(c) - 1 = Len(s) \/ s[i + Len(c)] = SLASH)

RECURSIVE PercentDecoded(_)
\* the percent-decoded form of s, read left to right
PercentDecoded(s) ==
    IF \A i \in 1..Len(s) : s[i] # PERCENT THEN s
    ELSE IF Len(s) >= 3 /\ s[1] = PERCENT /\ IsHex(s[2]) /\ IsHex(s[3])
        THEN <<16 * HexVal(s[2]) + HexVal(s[3])>> \o PercentDecoded(SubSeq(s, 4, Len(s)))
    ELSE <<s[1]>> \o PercentDecoded(Tail(s))

HasDotComponent(s) == HasComponent(s, <<DOT>>) \/ HasComponent(s, <<DOT, DOT>>)

\* s has a component that starts with '.'
HasHiddenComponent(s) ==
    \E i \in 1..Len(s) : s[i] = DOT /\ (i = 1 \/ s[i - 1] = SLASH)

\* canonical: leading '/', no "//", no trailing '/' except for "/" itself
Canonical(s) ==
    /\ Len(s) >= 1
    /\ s[1] = SLASH
    /\ \A i \in 1..(Len(s) - 1) : ~(s[i] = SLASH /\ s[i + 1] = SLASH)
    /\ (Len(s) > 1 => s[Len(s)] # SLASH)

\* C2: every path whose percent-decoded form has a component "." or ".." is
\* rejected, and every accepted path is returned in canonical form (leading
\* '/', no empty component) without a "." or ".." component.
C2_TraversalRejectedAndCanonical ==
    Called =>
        /\ (HasDotComponent(PercentDecoded(rawPath)) => ~vres.ok)
        /\ (vres.ok => Canonical(vres.path) /\ ~HasDotComponent(vres.path))

\* a percent-encoded ".." (or ".") component was rejected
C2_Witness ==
    /\ Called
    /\ vres.err = "Path traversal attempt detected"
    /\ ~HasHiddenComponent(rawPath)
    /\ HasDotComponent(PercentDecoded(rawPath))

\* C3: a component starting with '.' is rejected, except that '.well-known'
\* is accepted (/.env and /.secret rejected, /.well-known/... accepted).
C3_WellKnownAccepted ==
    Called =>
        /\ (rawPath \in {P_env, P_secret} => ~vres.ok)
        /\ (rawPath \in {P_wk_security, P_wk_acme} => vres.ok)

\* only 'a' and '/', starting with '/': every rule but the size limits is met
OnlyPlain(s) == starts_with(s, <<SLASH>>) /\ \A i \in 1..Len(s) : s[i] \in {SLASH, CH_a}

NumSlashes(s) == Cardinality({i \in 1..Len(s) : s[i] = SLASH})

\* s has n consecutive bytes without a '/'
HasRun(s, n) == \E i \in 1..(Len(s) - n + 1) : \A j \in i..(i + n - 1) : s[j] # SLASH

\* C4: the size limits are inclusive: with every other rule met, a path is
\* accepted exactly when it has at most 1024 bytes, at most 32 components
\* and no component longer than 255 bytes.
C4_SizeLimitsInclusive ==
    (Called /\ OnlyPlain(rawPath)) =>
        (vres.ok <=> /\ Len(rawPath) <= 1024
                     /\ NumSlashes(rawPath) <= 32
                     /\ ~HasRun(rawPath, 256))

\* a path of exactly 1024 bytes was accepted
C4_Witness ==
    /\ Called
    /\ OnlyPlain(rawPath)
    /\ Len(rawPath) = 1024
    /\ vres.ok

(***************************************************************************)
(* Properties of the negotiation                                           *)
(***************************************************************************)
\* s without leading and trailing spaces
RECURSIVE trim(_)
trim(s) ==
    IF s # <<>> /\ s[1] = 32 THEN trim(Tail(s))
    ELSE IF s # <<>> /\ s[Len(s)] = 32 THEN trim(SubSeq(s, 1, Len(s) - 1))
    ELSE s

\* the tokens of a header: split on ',', parameters after ';' stripped, trimmed
TokensOf(a) ==
    LET parts == split(a, 44)
    IN  {trim(split(parts[k], 59)[1]) : k \in 1..Len(parts)}

\* the token-based reference negotiation
select_encoding(a) ==
    IF S_br \in TokensOf(a) THEN "Brotli"
    ELSE IF S_zstd \in TokensOf(a) THEN "Zstd"
    ELSE IF S_gzip \in TokensOf(a) THEN "Gzip"
    ELSE "Identity"

\* the wire token and the registered-buffer name of an encoding
WireToken(e) ==
    CASE e = "Brotli" -> "br" [] e = "Zstd" -> "zstd" [] e = "Gzip" -> "gzip" [] e = "Identity" -> "identity"

BufferName(e) == IF e = "Identity" THEN "Plain" ELSE e

Negotiated == nres # NotNegotiated

\* C6: for every Accept-Encoding value the negotiation equals the token-based
\* reference (Brotli > Zstd > Gzip > Identity over whole tokens); a substring
\* that is not a whole token never selects an encoding.
C6_NegotiationIsTokenBased ==
    Negotiated =>
        /\ nres.from_accept = select_encoding(accept)
        /\ (is_some(content.brotli) =>
               /\ nres.best = WireToken(select_encoding(accept))
               /\ nres.matched = BufferName(select_encoding(accept)))

(***************************************************************************)
(* Properties of the servers                                               *)
(***************************************************************************)
Responded == resp # NoResp

\* a connection handler answered a GET (get_response alone writes no status)
AnsweredGet == Responded /\ resp.status # 0 /\ resp.method = "GET"

\* C1: in every connection handler a request path that validate_request_path
\* rejects is answered 400 and nothing from the route index is served, even
\* when a file with that path was indexed at boot.
C1_RejectedPathNeverServed ==
    (AnsweredGet /\ ~validate_request_path(resp.path).ok) =>
        (resp.status = 400 /\ resp.body = None)

\* the url keys of the routes the running server indexed at boot
IndexedPaths == DOMAIN fastRoutes

\* the fallback order of the claim: exact path, path + "/", "/" in SPA mode
FallbackKey(keys, path, spa) ==
    IF path \in keys THEN path
    ELSE IF path[Len(path)] # SLASH /\ (path \o <<SLASH>>) \in keys THEN path \o <<SLASH>>
    ELSE IF spa /\ <<SLASH>> \in keys THEN <<SLASH>>
    ELSE NoKey

\* the document a response body carries, whatever its encoding
DocumentOf(body) == [data |-> body.data, len |-> body.len]

\* a handler writes its answer to a GET in this step
AnswersGet == resp = NoResp /\ resp' # NoResp /\ resp'.status # 0 /\ resp'.method = "GET"

\* C5: a validated GET path is looked up as the exact path, then with a
\* trailing '/', then (SPA mode only) as '/'; the first hit is served with
\* 200 and 404 is written exactly when all applicable steps miss.
C5_FallbackOrder ==
    [][(AnswersGet /\ validate_request_path(resp'.path).ok) =>
        LET key == FallbackKey(IndexedPaths, validate_request_path(resp'.path).path, spa_mode)
        IN  IF key = NoKey THEN resp'.status = 404
            ELSE /\ resp'.status = 200
                 /\ DocumentOf(resp'.body) = DocumentOf(fastRoutes'[key].content.plain)]_vars

\* get_response was called
Looked == Responded /\ server = "nanoweb"

\* get_response returns in this step
Looks == resp = NoResp /\ resp' # NoResp /\ server = "nanoweb"

\* C7: get(path, encoding) returns the entry of (path, encoding) when it
\* exists, otherwise the entry of (path, Identity), and nothing exactly when
\* (path, Identity) is absent; a non-compressible file requested with
\* "gzip, deflate, br, zstd" gets its identity body.
C7_LookupFallsBackToIdentity ==
    [][Looks =>
        LET enc == from_accept_encoding(resp'.accept)
            path == resp'.path
        IN  /\ path \in DOMAIN responses[enc] => resp'.buffer = responses[enc][path]
            /\ (path \notin DOMAIN responses[enc] /\ path \in DOMAIN responses["Identity"])
                   => resp'.buffer = responses["Identity"][path]
            /\ resp'.buffer = NoBuffer <=> path \notin DOMAIN responses["Identity"]
            /\ (path = P_png /\ resp'.accept = A_browser)
                   => /\ resp'.buffer = responses["Identity"][P_png]
                      /\ resp'.buffer.body.codec = "identity"
                      /\ resp'.buffer.content_encoding = "none"]_vars

\* the PNG was requested with a browser's Accept-Encoding and served by the fallback
C7_Witness ==
    /\ Looked
    /\ resp.path = P_png
    /\ resp.accept = A_browser
    /\ P_png \notin DOMAIN responses["Brotli"]
    /\ resp.buffer.body.codec = "identity"

\* C8: for every path p and encoding enc other than Identity, an entry for
\* (p, enc) comes with an entry for (p, Identity).
C8_IdentityAlwaysPresent ==
    \A enc \in Encodings \ {"Identity"} :
        DOMAIN responses[enc] \subseteq DOMAIN responses["Identity"]

\* the index holds compressed alias entries after a refresh rebuilt /index.html
C8_Witness ==
    /\ server = "nanoweb"
    /\ booted
    /\ INDEX_HTML \in DOMAIN routes
    /\ routes[INDEX_HTML].modified > 0
    /\ <<SLASH>> \in DOMAIN responses["Gzip"]
    /\ INDEX_HTML \in DOMAIN responses["Zstd"]

\* C9: all entries the index holds for one path carry the same ETag, the
\* same Last-Modified and the same Cache-Control across all encodings.
C9_SameValidatorsAcrossEncodings ==
    \A e1 \in Encodings, e2 \in Encodings :
        \A p \in (DOMAIN responses[e1]) \cap (DOMAIN responses[e2]) :
            /\ responses[e1][p].etag = responses[e2][p].etag
            /\ responses[e1][p].last_modified = responses[e2][p].last_modified
            /\ responses[e1][p].cache_control = responses[e2][p].cache_control

\* the codec named by an encoding
CodecOf(e) ==
    CASE e = "Identity" -> "identity" [] e = "Gzip" -> "gzip" [] e = "Brotli" -> "br"
      [] e = "Zstd" -> "zstd"

DecodeError == [codec |-> "error", data |-> 0, len |-> 0]

\* decoding bytes with the codec of e: only bytes that codec produced decode
Decode(e, body) ==
    IF body.codec = CodecOf(e) THEN [body EXCEPT !.codec = "identity"] ELSE DecodeError

\* C10: the body stored under (p, e), decoded with codec e, equals the body
\* stored under (p, Identity), for file keys and directory-alias keys.
C10_VariantsDecodeToIdentity ==
    \A e \in Encodings :
        \A p \in DOMAIN responses[e] :
            /\ p \in DOMAIN responses["Identity"]
            /\ Decode(e, responses[e][p].body) = responses["Identity"][p].body

\* "index.html"
INDEX_NAME == Tail(INDEX_HTML)

\* RegisteredBufferManager::get as a lookup that may find nothing
BufferGet(path, encoding) ==
    IF Key(path, encoding) \in DOMAIN bufResponses THEN bufResponses[Key(path, encoding)]
    ELSE None

\* the directory paths the index of the running server has an entry for
DirectoryKeys ==
    {p \in DOMAIN responses["Identity"] : ends_with(p, <<SLASH>>)}
    \cup {k.path : k \in {x \in DOMAIN bufResponses : ends_with(x.path, <<SLASH>>)}}

\* C11: for every directory path p (ending in '/') the index has an entry
\* for, the lookups of p and of p + "index.html" return byte-identical
\* buffers for each encoding, after boot and after any refreshes.
C11_AliasByteIdentical ==
    \A p \in DirectoryKeys :
        /\ \A enc \in Encodings :
               server = "nanoweb" =>
                   ResponseCache_get(responses, p, enc)
                       = ResponseCache_get(responses, p \o INDEX_NAME, enc)
        /\ \A i \in 1..Len(all_priority) :
               server \in {"uring", "multiuring"} =>
                   BufferGet(p, all_priority[i]) = BufferGet(p \o INDEX_NAME, all_priority[i])

(***************************************************************************)
(* The response builders: response_buffer.rs, http.rs, the literal         *)
(* responses of server_multiuring.rs and the writers of ultra_server.rs.   *)
(* A response is its status, its header lines in order and its body bytes. *)
(***************************************************************************)
\* "Not Found"
T_NotFound ==
    <<78, 111, 116, 32, 70, 111, 117, 110, 100>>

\* "Bad Request"
T_BadRequest ==
    <<66, 97, 100, 32, 82, 101, 113, 117, 101, 115, 116>>

\* "Internal Server Error"
T_InternalServerError ==
    <<73, 110, 116, 101, 114, 110, 97, 108, 32, 83, 101, 114, 118, 101, 114, 32, 69,
    114, 114, 111, 114>>

\* "Method Not Allowed"
T_MethodNotAllowed ==
    <<77, 101, 116, 104, 111, 100, 32, 78, 111, 116, 32, 65, 108, 108, 111, 119, 101,
    100>>

\* "Payload Too Large"
T_PayloadTooLarge ==
    <<80, 97, 121, 108, 111, 97, 100, 32, 84, 111, 111, 32, 76, 97, 114, 103, 101>>

\* "Request Entity Too Large"
T_RequestEntityTooLarge ==
    <<82, 101, 113, 117, 101, 115, 116, 32, 69, 110, 116, 105, 116, 121, 32, 84, 111,
    111, 32, 76, 97, 114, 103, 101>>

\* "Bad Request - Invalid UTF-8"
T_BadRequestUtf8 ==
    <<66, 97, 100, 32, 82, 101, 113, 117, 101, 115, 116, 32, 45, 32, 73, 110, 118, 97,
    108, 105, 100, 32, 85, 84, 70, 45, 56>>

\* "Bad Request - Invalid Path"
T_BadRequestPath ==
    <<66, 97, 100, 32, 82, 101, 113, 117, 101, 115, 116, 32, 45, 32, 73, 110, 118, 97,
    108, 105, 100, 32, 80, 97, 116, 104>>

\* "{\"status\":\"ok\",\"timestamp\":\"1970-01-01T00:00:00Z\"}"
T_Health ==
    <<123, 34, 115, 116, 97, 116, 117, 115, 34, 58, 34, 111, 107, 34, 44, 34, 116, 105,
    109, 101, 115, 116, 97, 109, 112, 34, 58, 34, 49, 57, 55, 48, 45, 48, 49, 45, 48,
    49, 84, 48, 48, 58, 48, 48, 58, 48, 48, 90, 34, 125>>

\* "9"
T_9 ==
    <<57>>

\* "11"
T_11 ==
    <<49, 49>>

\* "17"
T_17 ==
    <<49, 55>>

\* "21"
T_21 ==
    <<50, 49>>

\* "49"
T_49 ==
    <<52, 57>>

SPACE == 32
DIGIT_0 == 48

Header(name, value) == [name |-> name, value |-> value]

WireResponse(status, headers, body) == [status |-> status, headers |-> headers, body |-> body]

RECURSIVE to_string(_)
\* usize::to_string / u16::to_string: the decimal digits of n
to_string(n) ==
    IF n < 10 THEN <<DIGIT_0 + n>>
    ELSE to_string(n \div 10) \o <<DIGIT_0 + (n % 10)>>

\* response_buffer.rs Encoding::header_value
header_value(encoding) ==
    CASE encoding = "Identity" -> "none" [] encoding = "Gzip" -> "gzip"
      [] encoding = "Brotli" -> "br" [] encoding = "Zstd" -> "zstd"

\* registered_buffers.rs Encoding::content_encoding_header
content_encoding_header(encoding) ==
    CASE encoding = "Plain" -> "none" [] encoding = "Gzip" -> "gzip"
      [] encoding = "Brotli" -> "br" [] encoding = "Zstd" -> "zstd"

\* response_buffer.rs ResponseBuffer::build
ResponseBuffer_build(content_type, encoding, etag, last_modified, cache_control, body) ==
    WireResponse(200,
        <<Header("Content-Type", content_type)>>
        \o (IF header_value(encoding) # "none"
            THEN <<Header("Content-Encoding", header_value(encoding))>> ELSE <<>>)
        \o <<Header("Content-Length", to_string(Len(body))),
             Header("ETag", etag),
             Header("Last-Modified", last_modified),
             Header("Cache-Control", cache_control),
             Header("X-Content-Type-Options", "nosniff"),
             Header("X-Frame-Options", "SAMEORIGIN"),
             Header("Referrer-Policy", "strict-origin-when-cross-origin")>>,
        body)

\* response_buffer.rs ResponseBuffer::new (status line, the given headers, the body)
ResponseBuffer_new_legacy(status_code, headers, body) ==
    WireResponse(status_code, headers, body)

\* response_buffer.rs ResponseBuffer::not_found
not_found ==
    ResponseBuffer_new_legacy(404,
        <<Header("Content-Type", "text/plain"), Header("Content-Length", T_9),
          Header("Cache-Control", "no-cache")>>, T_NotFound)

\* response_buffer.rs ResponseBuffer::bad_request
bad_request ==
    ResponseBuffer_new_legacy(400,
        <<Header("Content-Type", "text/plain"), Header("Content-Length", T_11),
          Header("Cache-Control", "no-cache")>>, T_BadRequest)

\* response_buffer.rs ResponseBuffer::internal_error
internal_error ==
    ResponseBuffer_new_legacy(500,
        <<Header("Content-Type", "text/plain"), Header("Content-Length", T_21),
          Header("Cache-Control", "no-cache")>>, T_InternalServerError)

\* http.rs build_response
build_response(status, headers, body) ==
    WireResponse(status, headers \o <<Header("Content-Length", to_string(Len(body)))>>, body)

\* registered_buffers.rs build_http_response, given the body of the variant
build_http_response_bytes(content_type, etag, last_modified, encoding, body) ==
    build_response(200,
        <<Header("Content-Type", content_type),
          Header("Cache-Control", "public, max-age=3600"),
          Header("Server", "nano-web-uring-zerocopy"),
          Header("ETag", etag),
          Header("Last-Modified", last_modified)>>
        \o (IF content_encoding_header(encoding) # "none"
            THEN <<Header("Content-Encoding", content_encoding_header(encoding))>>
            ELSE <<>>),
        body)

\* server_multiuring.rs submit_write_404, submit_write_400, submit_write_413
submit_write_404 == WireResponse(404, <<Header("Content-Length", T_9)>>, T_NotFound)
submit_write_400 == WireResponse(400, <<Header("Content-Length", T_11)>>, T_BadRequest)
submit_write_413 == WireResponse(413, <<Header("Content-Length", T_17)>>, T_PayloadTooLarge)

\* ultra_server.rs write_error_response
write_error_response(status, message) ==
    WireResponse(status,
        <<Header("Content-Type", "text/plain"),
          Header("Content-Length", to_string(Len(message) + Len(to_string(status)) + 1)),
          Header("Connection", "close")>>,
        to_string(status) \o <<SPACE>> \o message)

\* ultra_server.rs write_health_response
write_health_response ==
    WireResponse(200,
        <<Header("Content-Type", "application/json"), Header("Content-Length", T_49),
          Header("Cache-Control", "no-cache")>>, T_Health)

\* ultra_server.rs security_headers() as write_fast_response emits them
security_headers ==
    <<Header("X-Content-Type-Options", "nosniff"),
      Header("X-Frame-Options", "DENY"),
      Header("X-XSS-Protection", "1; mode=block"),
      Header("Referrer-Policy", "strict-origin-when-cross-origin"),
      Header("Content-Security-Policy",
             "default-src 'self'; script-src 'self' 'unsafe-inline'; style-src 'self' 'unsafe-inline';"),
      Header("Strict-Transport-Security", "max-age=31536000; includeSubDomains")>>

\* ultra_server.rs write_fast_response
write_fast_response(content_type, last_modified, etag, cache_control, encoding, bytes, head_only) ==
    WireResponse(200,
        <<Header("Content-Type", content_type),
          Header("Content-Length", to_string(Len(bytes))),
          Header("Last-Modified", last_modified),
          Header("ETag", etag),
          Header("Cache-Control", cache_control),
          Header("Server", "nano-web-ultra")>>
        \o (IF encoding # "identity" THEN <<Header("Content-Encoding", encoding)>> ELSE <<>>)
        \o security_headers
        \o <<Header("Connection", "keep-alive")>>,
        IF head_only THEN <<>> ELSE bytes)

(***************************************************************************)
(* The builders applied to one input                                       *)
(***************************************************************************)
MaxBody == 11

\* body lengths: short ones, around a change of the number of digits, and
\* around the compression threshold
BodyLens == (0..MaxBody) \cup {99, 100, COMPRESS_THRESHOLD - 1, COMPRESS_THRESHOLD}

BodyOf(len) == Rep(CH_a, len)

BuildCall(builder, status, text, encoding, len, head_only) ==
    [builder |-> builder, status |-> status, text |-> text, encoding |-> encoding,
     len |-> len, head_only |-> head_only]

\* the calls of the builders that the servers make
BuildInputs ==
    {BuildCall("ResponseBuffer::build", 200, <<>>, e, n, FALSE) :
         e \in Encodings, n \in BodyLens}
    \cup {BuildCall("build_http_response", 200, <<>>, all_priority[i], n, FALSE) :
              i \in 1..Len(all_priority), n \in BodyLens}
    \cup {BuildCall("write_fast_response", 200, <<>>, e, n, h) :
              e \in {"identity", "gzip", "br", "zstd"}, n \in BodyLens, h \in BOOLEAN}
    \cup {BuildCall(b, 0, <<>>, "none", 0, FALSE) :
              b \in {"not_found", "bad_request", "internal_error", "submit_write_404",
                     "submit_write_400", "submit_write_413", "write_health_response"}}
    \cup {BuildCall("build_response", 400, T_BadRequest, "none", 0, FALSE),
          BuildCall("build_response", 405, T_MethodNotAllowed, "none", 0, FALSE),
          BuildCall("build_response", 404, T_NotFound, "none", 0, FALSE)}
    \cup {BuildCall("write_error_response", 413, T_RequestEntityTooLarge, "none", 0, FALSE),
          BuildCall("write_error_response", 400, T_BadRequestUtf8, "none", 0, FALSE),
          BuildCall("write_error_response", 400, T_BadRequest, "none", 0, FALSE),
          BuildCall("write_error_response", 400, T_BadRequestPath, "none", 0, FALSE),
          BuildCall("write_error_response", 404, T_NotFound, "none", 0, FALSE)}

\* the response a call produces
BuildResponse(c) ==
    CASE c.builder = "ResponseBuffer::build" ->
             ResponseBuffer_build("text/html", c.encoding, "etag", "date",
                                  "public, max-age=900", BodyOf(c.len))
      [] c.builder = "build_http_response" ->
             build_http_response_bytes("text/html", "etag", "date", c.encoding, BodyOf(c.len))
      [] c.builder = "write_fast_response" ->
             write_fast_response("text/html", "date", "etag", "public, max-age=900",
                                 c.encoding, BodyOf(c.len), c.head_only)
      [] c.builder = "not_found" -> not_found
      [] c.builder = "bad_request" -> bad_request
      [] c.builder = "internal_error" -> internal_error
      [] c.builder = "submit_write_404" -> submit_write_404
      [] c.builder = "submit_write_400" -> submit_write_400
      [] c.builder = "submit_write_413" -> submit_write_413
      [] c.builder = "write_health_response" -> write_health_response
      [] c.builder = "build_response" -> build_response(c.status, <<>>, c.text)
      [] c.builder = "write_error_response" -> write_error_response(c.status, c.text)

InitBuild ==
    /\ breq \in BuildInputs
    /\ built = NotBuilt
    /\ IdleValidate
    /\ IdleNegotiate
    /\ IdleServer
    /\ IdlePublish
    /\ IdleHistory
    /\ IdleConn
    /\ IdleLater

Build ==
    /\ built = NotBuilt
    /\ built' = BuildResponse(breq)
    /\ UNCHANGED <<breq, vvars, nvars, svars, pvars, hvars, kvars, lvars>>

NextBuild == Build

SpecBuild == InitBuild /\ [][NextBuild]_vars

(***************************************************************************)
(* Properties of the builders                                              *)
(***************************************************************************)
IsDigit(b) == b \in DIGIT_0..(DIGIT_0 + 9)

RECURSIVE ParseDecimal(_)
\* the number a sequence of decimal digits denotes, -1 when it is not one
ParseDecimal(digits) ==
    IF digits = <<>> \/ ~IsDigit(digits[Len(digits)]) THEN -1
    ELSE IF Len(digits) = 1 THEN digits[1] - DIGIT_0
    ELSE LET high == ParseDecimal(SubSeq(digits, 1, Len(digits) - 1))
         IN  IF high < 0 THEN -1 ELSE 10 * high + (digits[Len(digits)] - DIGIT_0)

\* the values of the header lines with this name
HeaderValues(r, name) ==
    {r.headers[i].value : i \in {j \in 1..Len(r.headers) : r.headers[j].name = name}}

\* C12: every response the server builds (the 200 responses of every
\* encoding and the 400/404/405/413/500 error responses) has a
\* Content-Length header whose value is the number of body bytes that follow
\* the blank line. Responses to HEAD carry no body and are left out.
C12_ContentLengthIsBodyLength ==
    (built # NotBuilt /\ ~breq.head_only) =>
        /\ HeaderValues(built, "Content-Length") # {}
        /\ \A v \in HeaderValues(built, "Content-Length") : ParseDecimal(v) = Len(built.body)

(***************************************************************************)
(* Properties of the dev-mode refresh                                      *)
(***************************************************************************)
\* the document a source file yields when it is processed now
CurrentDocument(file_path) == DocumentOf(ProcessFile(file_path, fs[file_path]).plain)

\* routes.rs refresh_if_modified(url_path) runs in this step and rebuilds the route
Refreshes(url_path) ==
    /\ server = "nanoweb" /\ booted /\ dev
    /\ refresh_if_modified(routes, responses, url_path, fs, "none").refreshed
    /\ routes' = refresh_if_modified(routes, responses, url_path, fs, "none").routes
    /\ responses' = refresh_if_modified(routes, responses, url_path, fs, "none").responses

\* C13: in dev mode, once the source file of a route has an mtime greater
\* than the stored one, the refresh replaces all encoding variants and the
\* alias entries of the route, so that the next GET of any URL key of that
\* file, for any encoding, returns the new content.
C13_RefreshReplacesEveryEntry ==
    [][/\ \A p \in RequestPaths :
              Refreshes(p) =>
                  \A k \in DOMAIN routes, enc \in Encodings :
                      routes[k].path = routes[p].path =>
                          DocumentOf(ResponseCache_get(responses', k, enc).body)
                              = CurrentDocument(routes[p].path)
       /\ (/\ server = "ultra" /\ dev /\ AnswersGet /\ resp'.status = 200
           /\ resp'.key = validate_request_path(resp'.path).path
           /\ fs[fastRoutes[resp'.key].path].mtime > fastRoutes[resp'.key].modified)
              => DocumentOf(resp'.body) = CurrentDocument(fastRoutes[resp'.key].path)]_vars

(***************************************************************************)
(* routes.rs refresh_if_modified step by step: every DashMap insert of     *)
(* create_route is a step of its own, and request handlers run between     *)
(* the steps.                                                              *)
(***************************************************************************)
\* the inserts of create_route into the response cache, in the order of the code
create_route_inserts(file_path, file) ==
    LET modified == file.mtime
        mime_config == get_mime_config(file_path)
        compressed == ProcessFile(file_path, file)
        etag == generate_etag(modified, compressed.plain)
        lm == format_http_date(modified)
        ct == mime_config.mime_type
        cc == get_cache_control(mime_config.mime_type)
        Insert(encoding, body, ce) ==
            [encoding |-> encoding, buffer |-> ResponseBuffer_new(body, ct, ce, etag, lm, cc)]
    IN  <<Insert("Identity", compressed.plain, "none")>>
        \o (IF is_some(compressed.gzip)
            THEN <<Insert("Gzip", compressed.gzip, "gzip")>> ELSE <<>>)
        \o (IF is_some(compressed.brotli)
            THEN <<Insert("Brotli", compressed.brotli, "br")>> ELSE <<>>)
        \o (IF is_some(compressed.zstd)
            THEN <<Insert("Zstd", compressed.zstd, "zstd")>> ELSE <<>>)

\* refresh_if_modified up to the first insert of create_route: the route is
\* looked up, the file is stat-ed, read, processed and compressed
RefreshBegin(url_path) ==
    /\ server = "nanoweb" /\ booted /\ dev
    /\ ~refreshing.active
    /\ Has(routes, url_path)
    /\ fs[routes[url_path].path].mtime > routes[url_path].modified
    /\ LET file_path == routes[url_path].path
       IN  refreshing' =
               [active |-> TRUE,
                url_path |-> file_path_to_url(file_path),
                route |-> [content |-> ProcessFile(file_path, fs[file_path]),
                           path |-> file_path, modified |-> fs[file_path].mtime],
                old |-> [e \in Encodings |->
                            IF Has(responses[e], file_path_to_url(file_path))
                            THEN responses[e][file_path_to_url(file_path)] ELSE NoBuffer],
                inserts |-> create_route_inserts(file_path, fs[file_path]),
                pending |-> create_route_inserts(file_path, fs[file_path])]
    /\ UNCHANGED <<svars, vvars, nvars, bvars, hvars, kvars, lvars>>

\* the next self.responses.insert of create_route
RefreshInsert ==
    /\ refreshing.active
    /\ refreshing.pending # <<>>
    /\ responses' = ResponseCache_insert(responses, refreshing.url_path,
                                         refreshing.pending[1].encoding,
                                         refreshing.pending[1].buffer)
    /\ refreshing' = [refreshing EXCEPT !.pending = Tail(@)]
    /\ UNCHANGED <<cvars, booted, faulty, staticCache, fs, writes, routes, fastRoutes, bufResponses, resp,
                   vvars, nvars, bvars, hvars, kvars, lvars>>

\* self.routes.insert(new_url, new_route) and the return of refresh_if_modified
RefreshPublish ==
    /\ refreshing.active
    /\ refreshing.pending = <<>>
    /\ routes' = Put(routes, refreshing.url_path, refreshing.route)
    /\ refreshing' = NoRefresh
    /\ UNCHANGED <<cvars, booted, faulty, staticCache, fs, writes, responses, fastRoutes, bufResponses, resp,
                   vvars, nvars, bvars, hvars, kvars, lvars>>

InitPublish ==
    /\ InitServer
    /\ server = "nanoweb"
    /\ dev
    /\ IdleValidate /\ IdleNegotiate /\ IdleExtra

NextPublish ==
    \/ Boot
    \/ HandlerReturns
    \/ \E f \in Files, len \in FileLens, later \in {0, 1} : WriteFile(f, len, later)
    \/ \E p \in RequestPaths : RefreshBegin(p)
    \/ RefreshInsert
    \/ RefreshPublish
    \/ \E p \in RequestPaths, a \in RequestAccepts : GetResponse(p, a)

SpecPublish == InitPublish /\ [][NextPublish]_vars

\* the buffer the refresh in progress publishes for an encoding, or NoBuffer
NewBuffer(enc) ==
    LET hits == {i \in 1..Len(refreshing.inserts) : refreshing.inserts[i].encoding = enc}
    IN  IF hits = {} THEN NoBuffer ELSE refreshing.inserts[CHOOSE i \in hits : TRUE].buffer

\* a lookup of the refreshed route for this encoding observes the new buffer
ObservesNew(enc) ==
    /\ NewBuffer(enc) # NoBuffer
    /\ NewBuffer(enc) # refreshing.old[enc]
    /\ Has(responses[enc], refreshing.url_path)
    /\ responses[enc][refreshing.url_path] = NewBuffer(enc)

\* a lookup of the refreshed route for this encoding observes the old buffer
ObservesOld(enc) ==
    /\ NewBuffer(enc) # NoBuffer
    /\ NewBuffer(enc) # refreshing.old[enc]
    /\ Has(responses[enc], refreshing.url_path)
    /\ responses[enc][refreshing.url_path] = refreshing.old[enc]

\* C14: while a refresh of a route runs concurrently with request handlers,
\* a reader that observes the new buffer for one encoding observes the new
\* buffer for every other encoding of the route; the Identity entry is
\* published last.
C14_PublicationOrdered ==
    refreshing.active =>
        \A enc \in Encodings, other \in Encodings :
            ~(ObservesNew(enc) /\ ObservesOld(other))
\* ---------------------------------------------------------------------------
\* C15: a refresh that fails leaves the index as it was, and the request is
\* answered from the stale entry

\* ultra_server.rs answers in this step after its refresh returned Err
AnswersAfterFailedRefresh ==
    /\ server = "ultra"
    /\ resp = NoResp
    /\ resp'.refresh = "failed"

HandlerReturnsRecorded(keep) ==
    /\ resp # NoResp
    /\ prev' = IF keep THEN resp ELSE prev
    /\ resp' = NoResp
    /\ UNCHANGED <<cvars, booted, faulty, staticCache, fs, writes, routes, responses, fastRoutes, bufResponses,
                   vvars, nvars, bvars, pvars, kvars, lvars>>

StaticPaths == {P_dslash, P_png, P_nope, P_health}

InitStatic ==
    /\ InitServer
    /\ ~dev
    /\ IdleValidate /\ IdleNegotiate /\ IdleExtra

NextStatic ==
    \/ Boot
    \/ \E keep \in BOOLEAN : HandlerReturnsRecorded(keep)
    \/ \E f \in Files, len \in FileLens, later \in {0, 1} : WriteFile(f, len, later)
    \/ \E p \in StaticPaths, a \in RequestAccepts : GetResponse(p, a)
    \/ \E m \in RequestMethods, p \in StaticPaths, a \in RequestAccepts, fault \in Faults :
           UltraRequest(m, p, a, fault)
    \/ \E m \in RequestMethods, p \in StaticPaths, a \in RequestAccepts : UringRequest(m, p, a)
    \/ \E m \in RequestMethods, p \in StaticPaths, a \in RequestAccepts :
           MultiUringRequest(m, p, a)

SpecStatic == InitStatic /\ [][NextStatic]_vars

\* ---------------------------------------------------------------------------
\* C16: outside dev mode the index is frozen after boot and GET is idempotent

\* the same GET: method, path and Accept-Encoding agree
SameGet(r1, r2) ==
    /\ r1 # NoResp /\ r2 # NoResp
    /\ r1.method = "GET" /\ r2.method = "GET"
    /\ r1.path = r2.path
    /\ r1.accept = r2.accept

READ_BUFFER_SIZE == 8192

\* security.rs MAX_REQUEST_SIZE = 16 * 1024
MAX_REQUEST_SIZE == 16384

MaxRequests == 2

CRLF == <<13, 10>>

T_GET == <<71, 69, 84>>    \* "GET"
T_POST == <<80, 79, 83, 84>>    \* "POST"
T_HTTP11 == <<72, 84, 84, 80, 47, 49, 46, 49>>    \* "HTTP/1.1"
T_ConnectionClose == <<67, 111, 110, 110, 101, 99, 116, 105, 111, 110, 58, 32, 99, 108, 111, 115, 101>>    \* "Connection: close"
T_ConnectionKeepAlive == <<67, 111, 110, 110, 101, 99, 116, 105, 111, 110, 58, 32, 107, 101, 101, 112, 45, 97, 108, 105, 118, 101>>    \* "Connection: keep-alive"

ConnMethods == {"GET", "POST"}
ConnPaths == {P_png, P_nope}
ConnectionHeaders == {"none", "close", "keep-alive"}

\* a request of the client: its header section is either complete, with the
\* Connection header given, or padded beyond the read buffer before it ends
ConnRequests ==
    [method : ConnMethods, path : ConnPaths, connection : ConnectionHeaders,
     oversize : {FALSE}]
    \cup [method : {"GET"}, path : ConnPaths, connection : {"none"}, oversize : {TRUE}]

NoReq == [method |-> "none"]

\* what the client sends on one connection: every request but the last is complete
Scripts ==
    {q \in SeqsUpTo(ConnRequests, MaxRequests) \ {<<>>} :
        \A i \in 1..(Len(q) - 1) : ~q[i].oversize}

\* "GET /a.png HTTP/1.1\r\n"
RequestLine(r) ==
    (IF r.method = "GET" THEN T_GET ELSE T_POST) \o <<SPACE>> \o r.path \o <<SPACE>>
    \o T_HTTP11 \o CRLF

\* the header lines and the blank line
HeaderLines(r) ==
    (CASE r.connection = "close" -> T_ConnectionClose \o CRLF
       [] r.connection = "keep-alive" -> T_ConnectionKeepAlive \o CRLF
       [] OTHER -> <<>>) \o CRLF

LineChunk(r) == [kind |-> "line", req |-> r, len |-> Len(RequestLine(r))]
HeadersChunk(r) == [kind |-> "headers", req |-> r, len |-> Len(HeaderLines(r))]
FillerChunk(n) == [kind |-> "filler", req |-> NoReq, len |-> n]

\* the chunks of one request; the padding alone fills the read buffer
ChunksOf(r) ==
    IF r.oversize
    THEN <<LineChunk(r), FillerChunk(READ_BUFFER_SIZE \div 2),
           FillerChunk(READ_BUFFER_SIZE \div 2)>>
    ELSE <<LineChunk(r), HeadersChunk(r)>>

RECURSIVE StreamOf(_)
StreamOf(script) ==
    IF script = <<>> THEN <<>> ELSE ChunksOf(script[1]) \o StreamOf(Tail(script))

RECURSIVE ByteCount(_)
ByteCount(chunks) ==
    IF chunks = <<>> THEN 0 ELSE chunks[1].len + ByteCount(Tail(chunks))

RECURSIVE read(_, _, _)
\* one read of the socket into a buffer with room for cap bytes, when the
\* network has delivered the first k chunks: the bytes read and the bytes left
read(stream, k, cap) ==
    IF k = 0 \/ stream = <<>> \/ cap = 0 THEN [data |-> <<>>, rest |-> stream]
    ELSE IF stream[1].len <= cap
    THEN LET more == read(Tail(stream), k - 1, cap - stream[1].len)
         IN  [data |-> <<stream[1]>> \o more.data, rest |-> more.rest]
    ELSE [data |-> <<FillerChunk(cap)>>,
          rest |-> <<[kind |-> IF stream[1].kind = "line" THEN "filler" ELSE stream[1].kind,
                      req |-> stream[1].req, len |-> stream[1].len - cap]>>
                   \o Tail(stream)]

\* the number of chunks that end a header section
Terminators(buf) == Cardinality({i \in 1..Len(buf) : buf[i].kind = "headers"})

\* http.rs parse_request on the bytes of the buffer: "\r\n\r\n" is found when a
\* header section ends in the buffer (a lone blank line is only "\r\n"), and
\* the first line must have three parts
parse_request(buf) ==
    IF buf = <<>> THEN [result |-> "Incomplete", req |-> NoReq]
    ELSE IF buf[1].kind = "line"
    THEN IF Terminators(buf) = 0 THEN [result |-> "Incomplete", req |-> NoReq]
         ELSE [result |-> "Ok", req |-> buf[1].req]
    ELSE IF buf[1].kind = "headers" /\ buf[1].req.connection = "none"
    THEN IF Terminators(buf) <= 1 THEN [result |-> "Incomplete", req |-> NoReq]
         ELSE [result |-> "Invalid", req |-> NoReq]
    ELSE IF Terminators(buf) = 0 THEN [result |-> "Incomplete", req |-> NoReq]
    ELSE [result |-> "Invalid", req |-> NoReq]

\* a response written to the connection: its status, the request it answers
\* and whether the handler closed the connection after it
Sent(status, req, close) == [status |-> status, req |-> req, close |-> close]

\* what a handler did for the connection: a read that returned bytes, a read
\* that returned none ("eof"), the parse and lookup, a write and its outcome,
\* and the close (the return of the handler or the removal of the connection)
Event(op, parse, connection, status, ok) ==
    [op |-> op, parse |-> parse, connection |-> connection, status |-> status, ok |-> ok]

ReadEvent == Event("read", "none", "none", 0, TRUE)
EofEvent == Event("eof", "none", "none", 0, TRUE)
DispatchEvent(parse, req) ==
    Event("dispatch", parse, IF req = NoReq THEN "none" ELSE req.connection, 0, TRUE)
WriteEvent(status, ok) == Event("write", "none", "none", status, ok)
CloseEvent == Event("close", "none", "none", 0, TRUE)

\* consecutive reads of one request are one stay in the reading state
AfterRead(log) == IF log # <<>> /\ log[Len(log)].op = "read" THEN log ELSE log \o <<ReadEvent>>

Connection(script) ==
    [state |-> "open", script |-> script, stream |-> StreamOf(script),
     read_buffer |-> <<>>, bytes_read |-> 0, pending |-> 0, answers |-> NoReq,
     sent |-> <<>>, log |-> <<>>]

\* accept(): the client connects and will send the requests of the script
Accept(script) ==
    /\ booted
    /\ server # "nanoweb"
    /\ conn = NoConn
    /\ conn' = Connection(script)
    /\ UNCHANGED <<svars, vvars, nvars, bvars, pvars, hvars, lvars>>

\* ultra_server.rs 83-166: 413 when the read reached MAX_REQUEST_SIZE, else the
\* response to the first line of what was read; and the routes left
UltraAnswer(bytes_read, req) ==
    IF bytes_read >= MAX_REQUEST_SIZE
    THEN [written |-> Sent(413, NoReq, TRUE), routes |-> fastRoutes]
    ELSE [written |-> Sent(UltraResponse(req.method, req.path, <<>>, "none").resp.status,
                           req, TRUE),
          routes |-> UltraResponse(req.method, req.path, <<>>, "none").routes]

\* ultra_server.rs handle_ultra_fast_connection: one read into a buffer of
\* MAX_REQUEST_SIZE.min(8192) bytes, one response built from the first line of
\* what was read, and the stream is dropped on return
UltraConnection(k, wok) ==
    /\ server = "ultra"
    /\ conn # NoConn /\ conn.state = "open"
    /\ conn.stream # <<>>
    /\ \E rd \in {read(conn.stream, k,
                       IF MAX_REQUEST_SIZE < READ_BUFFER_SIZE THEN MAX_REQUEST_SIZE
                       ELSE READ_BUFFER_SIZE)} :
         /\ rd.data # <<>>
         /\ \E answer \in {UltraAnswer(ByteCount(rd.data), rd.data[1].req)} :
              /\ conn' = [conn EXCEPT
                     !.state = "closed", !.stream = rd.rest, !.read_buffer = rd.data,
                     !.bytes_read = ByteCount(rd.data),
                     !.sent = IF wok THEN <<answer.written>> ELSE <<>>,
                     !.log = <<ReadEvent,
                               DispatchEvent(IF answer.written.status \in {400, 413}
                                             THEN "Invalid" ELSE "Ok", answer.written.req),
                               WriteEvent(answer.written.status, wok), CloseEvent>>]
              /\ fastRoutes' = answer.routes
    /\ UNCHANGED <<cvars, booted, faulty, staticCache, fs, writes, routes, responses, bufResponses, resp,
                   vvars, nvars, bvars, pvars, hvars, lvars>>

\* server_uring.rs handle_connection 114-183: 400 when the read does not parse,
\* else the response to the parsed request, after which the loop goes on only
\* if the request said "Connection: keep-alive"
UringAnswer(parsed) ==
    IF parsed.result # "Ok" THEN Sent(400, NoReq, TRUE)
    ELSE Sent(UringResponse(parsed.req.method, parsed.req.path, <<>>).status, parsed.req,
              parsed.req.connection # "keep-alive")

\* server_uring.rs handle_connection 117-190: whether the loop is left after
\* the write: always after the 400 of a parse error; after a failed write of a
\* 200 or a 404; the result of the write of a 405 is dropped ("let _ =") and
\* "continue" tests keep_alive alone
UringCloses(written, wok) ==
    \/ written.req = NoReq
    \/ written.close
    \/ ~wok /\ written.status # 405

\* server_uring.rs handle_connection: one turn of the while keep_alive loop
UringTurn(k, wok) ==
    /\ server = "uring"
    /\ conn # NoConn /\ conn.state = "open"
    /\ conn.stream # <<>>
    /\ \E rd \in {read(conn.stream, k, READ_BUFFER_SIZE)} :
         /\ rd.data # <<>>
         /\ \E written \in {UringAnswer(parse_request(rd.data))} :
              conn' = [conn EXCEPT
                  !.stream = rd.rest, !.read_buffer = rd.data,
                  !.bytes_read = ByteCount(rd.data),
                  !.state = IF UringCloses(written, wok) THEN "closed" ELSE "open",
                  !.sent = IF wok THEN conn.sent \o <<written>> ELSE conn.sent,
                  !.log = conn.log
                          \o <<ReadEvent,
                               DispatchEvent(IF written.req = NoReq THEN "Invalid" ELSE "Ok",
                                             written.req),
                               WriteEvent(written.status, wok)>>
                          \o (IF UringCloses(written, wok) THEN <<CloseEvent>> ELSE <<>>)]
    /\ UNCHANGED <<svars, vvars, nvars, bvars, pvars, hvars, lvars>>

\* server_multiuring.rs run_worker 225-264: the status of the write submitted
\* after a read, or 0 when another read is submitted
MultiUringStatus(parsed, bytes_read) ==
    CASE parsed.result = "Ok" ->
             MultiUringResponse(parsed.req.method, parsed.req.path, <<>>).status
      [] parsed.result = "Invalid" -> 400
      [] parsed.result = "Incomplete" -> IF bytes_read >= READ_BUFFER_SIZE THEN 413 ELSE 0

\* server_multiuring.rs run_worker, OpType::Read with result > 0
MultiUringRead(k) ==
    /\ server = "multiuring"
    /\ conn # NoConn /\ conn.state = "open"
    /\ conn.stream # <<>>
    /\ \E rd \in {read(conn.stream, k, READ_BUFFER_SIZE - conn.bytes_read)} :
         /\ rd.data # <<>>
         /\ \E parsed \in {parse_request(conn.read_buffer \o rd.data)} :
            \E status \in {MultiUringStatus(parsed, conn.bytes_read + ByteCount(rd.data))} :
              conn' = [conn EXCEPT
                  !.stream = rd.rest, !.read_buffer = conn.read_buffer \o rd.data,
                  !.bytes_read = conn.bytes_read + ByteCount(rd.data),
                  !.state = IF status = 0 THEN "open" ELSE "writing",
                  !.pending = status,
                  !.answers = parsed.req,
                  !.log = AfterRead(conn.log)
                          \o (IF status = 0 THEN <<>>
                              ELSE <<DispatchEvent(parsed.result, parsed.req)>>)]
    /\ UNCHANGED <<svars, vvars, nvars, bvars, pvars, hvars, lvars>>

\* server_multiuring.rs run_worker, OpType::Write: the write completed and the
\* connection is removed and closed
MultiUringWrite(wok) ==
    /\ server = "multiuring"
    /\ conn # NoConn /\ conn.state = "writing"
    /\ conn' = [conn EXCEPT !.state = "closed", !.pending = 0, !.answers = NoReq,
                            !.sent = IF wok
                                     THEN conn.sent \o <<Sent(conn.pending, conn.answers, TRUE)>>
                                     ELSE conn.sent,
                            !.log = conn.log \o <<WriteEvent(conn.pending, wok), CloseEvent>>]
    /\ UNCHANGED <<svars, vvars, nvars, bvars, pvars, hvars, lvars>>

\* a read returns 0: the client has sent everything and shut the connection
ReadEof ==
    /\ server # "nanoweb"
    /\ conn # NoConn /\ conn.state = "open"
    /\ conn.stream = <<>>
    /\ conn' = [conn EXCEPT !.state = "closed", !.log = conn.log \o <<EofEvent, CloseEvent>>]
    /\ UNCHANGED <<svars, vvars, nvars, bvars, pvars, hvars, lvars>>

ChunkCounts == 1..(2 * MaxRequests + 1)

InitConn ==
    /\ InitServer
    /\ server \in {"ultra", "uring", "multiuring"}
    /\ ~dev
    /\ IdleValidate /\ IdleNegotiate /\ IdleExtra

NextConn ==
    \/ Boot
    \/ \E script \in Scripts : Accept(script)
    \/ \E k \in ChunkCounts : UltraConnection(k, TRUE)
    \/ \E k \in ChunkCounts : UringTurn(k, TRUE)
    \/ \E k \in ChunkCounts : MultiUringRead(k)
    \/ MultiUringWrite(TRUE)
    \/ ReadEof

SpecConn == InitConn /\ [][NextConn]_vars

\* ---------------------------------------------------------------------------
\* C17: keep-alive follows the Connection header of the request

\* the responses written so far that answer a parsed request
Answered == {i \in 1..Len(conn.sent) : conn.sent[i].req # NoReq}

\* C17: whenever a handler has written the response to a request with a
\* complete header section, it closed the connection after it if and only if
\* the request carried "Connection: close"
C17_ClosedIffConnectionClose ==
    conn # NoConn =>
        \A i \in Answered :
            ~conn.sent[i].req.oversize =>
                (conn.sent[i].close <=> conn.sent[i].req.connection = "close")

\* ---------------------------------------------------------------------------
\* C18: a header section split over several reads is accumulated

\* the status the server answers to the request when it is parsed whole
StatusOf(r) ==
    CASE server = "ultra" -> UltraResponse(r.method, r.path, <<>>, "none").resp.status
      [] server = "uring" -> UringResponse(r.method, r.path, <<>>).status
      [] server = "multiuring" -> MultiUringResponse(r.method, r.path, <<>>).status

\* C18: when the first request of a connection has a complete header section
\* of less than 8 KiB, the first response answers that request with the status
\* the server gives it when it arrives whole, however the reads cut the bytes
C18_SplitRequestAnsweredNormally ==
    (conn # NoConn /\ conn.sent # <<>> /\ ~conn.script[1].oversize) =>
        /\ conn.sent[1].req = conn.script[1]
        /\ conn.sent[1].status = StatusOf(conn.script[1])

\* ---------------------------------------------------------------------------
\* C19: one response per complete request, in the order of arrival

\* every request of the connection is complete and asks to keep it alive
KeptAlive(script) ==
    \A i \in 1..Len(script) : ~script[i].oversize /\ script[i].connection = "keep-alive"

\* C19: the i-th response that answers a request answers the i-th request of
\* the connection, and once every byte of a connection of complete keep-alive
\* requests has been read and no write is pending, every request has its response
C19_OneResponsePerRequestInOrder ==
    conn # NoConn =>
        /\ \A i \in Answered : i <= Len(conn.script) /\ conn.sent[i].req = conn.script[i]
        /\ (KeptAlive(conn.script) /\ conn.stream = <<>> /\ conn.state # "writing"
            /\ \A i \in 1..Len(conn.sent) : i \in Answered)
           => Len(conn.sent) = Len(conn.script)

\* ---------------------------------------------------------------------------
\* C20: a header section that fills the read buffer is answered 413

\* the read buffer is full and the header section in it has not ended
BufferFullIncomplete ==
    /\ conn # NoConn
    /\ conn.bytes_read >= READ_BUFFER_SIZE
    /\ parse_request(conn.read_buffer).result = "Incomplete"

\* C20: when the read buffer is full and the header section in it is still
\* incomplete, the handler is not reading again, and the response it writes is
\* a 413 after which it closes the connection
C20_FullBufferAnswered413 ==
    BufferFullIncomplete =>
        /\ conn.state # "open"
        /\ conn.state = "writing" => conn.pending = 413
        /\ conn.sent # <<>> =>
              /\ conn.sent[Len(conn.sent)].status = 413
              /\ conn.sent[Len(conn.sent)].close

\* ---------------------------------------------------------------------------
\* C30: the life of a connection, when a write to the socket may fail

NextLife ==
    \/ Boot
    \/ \E script \in Scripts : Accept(script)
    \/ \E k \in ChunkCounts, wok \in BOOLEAN : UltraConnection(k, wok)
    \/ \E k \in ChunkCounts, wok \in BOOLEAN : UringTurn(k, wok)
    \/ \E k \in ChunkCounts : MultiUringRead(k)
    \/ \E wok \in BOOLEAN : MultiUringWrite(wok)
    \/ ReadEof

SpecLife == InitConn /\ [][NextLife]_vars

\* the operations that may follow an operation on one connection: reading is
\* left for dispatching, dispatching for writing, and writing for reading
\* again (a read of zero bytes included) or for the close
Follows(op) ==
    CASE op = "read" -> {"dispatch"}
      [] op = "eof" -> {"close"}
      [] op = "dispatch" -> {"write"}
      [] op = "write" -> {"read", "eof", "close"}
      [] op = "close" -> {}

\* the events after which the connection must be closed: the write that
\* answers a parse error, a write that failed, the write that answers a
\* request with "Connection: close", and a read of zero bytes
Terminal(log, i) ==
    \/ log[i].op = "eof"
    \/ /\ log[i].op = "write"
       /\ \/ ~log[i].ok
          \/ log[i - 1].parse = "Invalid"
          \/ log[i - 1].connection = "close"

\* C30: the operations of a connection begin with a read and follow one
\* another as read, dispatch, write, then a read again or the close; the
\* close comes right after the write that answers a parse error, after a
\* failed write, after the write that answers a request with "Connection:
\* close" and after a read of zero bytes; and nothing is read, looked up or
\* written for the connection after the close
C30_ConnectionLifecycle ==
    conn # NoConn =>
        /\ conn.log # <<>> => conn.log[1].op \in {"read", "eof"}
        /\ \A i \in 1..(Len(conn.log) - 1) : conn.log[i + 1].op \in Follows(conn.log[i].op)
        /\ \A i \in 1..Len(conn.log) :
              Terminal(conn.log, i) =>
                  i < Len(conn.log) /\ conn.log[i + 1].op = "close"
        /\ conn.state = "closed" <=>
              (conn.log # <<>> /\ conn.log[Len(conn.log)].op = "close")

(***************************************************************************)
(* The bytes on the wire: what each connection handler writes for one      *)
(* request, with dev mode off.  The route headers are the FastRouteHeaders *)
(* (fast_routes.rs) and CachedRouteHeaders (server.rs) of the route.       *)
(***************************************************************************)

\* fast_routes.rs / server.rs generate_fast_etag: a value determined by the
\* mtime and the length of the plain body
generate_fast_etag(modified, plain) == <<modified, plain.len>>

\* FastRouteHeaders / CachedRouteHeaders as create_fast_route and server.rs
\* create_route fill them
RouteHeaders(route) ==
    [content_type |-> GuessMime(route.path),
     last_modified |-> format_http_date(route.modified),
     etag |-> generate_fast_etag(route.modified, route.content.plain),
     cache_control |-> get_cache_control(GuessMime(route.path))]

\* the number of bytes of a body of this model: a compressed variant is an
\* eighth of the plain body and a frame that depends on the codec
encoded_len(b) ==
    IF b.codec = "identity" THEN b.len
    ELSE (b.len \div 8) + (CASE b.codec = "gzip" -> 18 [] b.codec = "br" -> 4
                             [] b.codec = "zstd" -> 9)

\* the bytes of a body
as_bytes(b) == IF b = None THEN <<>> ELSE Rep(CH_a + b.data, encoded_len(b))

\* ultra_server.rs handle_ultra_fast_connection: the bytes written for the
\* response r, given the routes the handler read
UltraWire(r, rts) ==
    IF r.status = 400
    THEN write_error_response(400, IF parse_request_line_secure(r.method, r.path).ok
                                   THEN T_BadRequestPath ELSE T_BadRequest)
    ELSE IF r.status = 404 THEN write_error_response(404, T_NotFound)
    ELSE IF r.encoding = "health" THEN write_health_response
    ELSE \* 200 for a route
         Only({write_fast_response(h.content_type, h.last_modified, h.etag, h.cache_control,
                                   r.encoding, as_bytes(r.body), r.method = "HEAD") :
               h \in {RouteHeaders(rts[r.key])}})

\* registered_buffers.rs RegisteredBufferManager::new: the route a buffer
\* key was built from
RouteOfKey(rts, k) == IF Has(rts, k.path) THEN rts[k.path] ELSE rts[INDEX_HTML]

\* the pre-built buffer of key k: build_http_response of its route
RegisteredBuffer(rts, k) ==
    Only({build_http_response_bytes(h.content_type, h.etag, h.last_modified, k.encoding,
                                    as_bytes(build_http_response(RouteOfKey(rts, k), k.encoding))) :
          h \in {RouteHeaders(RouteOfKey(rts, k))}})

\* server_uring.rs handle_connection 117-190: the bytes written for r
UringWire(r, rts) ==
    IF r.status = 405 THEN build_response(405, <<>>, T_MethodNotAllowed)
    ELSE IF r.status = 404 THEN build_response(404, <<>>, T_NotFound)
    ELSE RegisteredBuffer(rts, Key(r.key, r.encoding))

\* server_multiuring.rs run_worker 229-263: the bytes written for r
MultiUringWire(r, rts) ==
    IF r.status = 400 THEN submit_write_400
    ELSE IF r.status = 404 THEN submit_write_404
    ELSE RegisteredBuffer(rts, Key(r.key, r.encoding))

\* a request on the wire and the bytes written for it
Wire(if_none_match, out) ==
    [if_none_match |-> if_none_match, status |-> out.status, headers |-> out.headers,
     body |-> out.body]

\* ultra_server.rs handle_ultra_fast_connection with the bytes it writes
UltraServe(method, raw_path, a, inm) ==
    /\ server = "ultra"
    /\ booted
    /\ resp = NoResp
    /\ \E u \in {UltraResponse(method, raw_path, a, "none")} :
           /\ resp' = u.resp
           /\ fastRoutes' = u.routes
           /\ wire' = Wire(inm, UltraWire(u.resp, u.routes))
    /\ UNCHANGED <<cvars, booted, faulty, staticCache, fs, writes, routes, responses, bufResponses, vvars, nvars,
                   bvars, pvars, hvars, kvars, zvars, mvars>>

\* server_uring.rs handle_connection with the bytes it writes
UringServe(method, path, a, inm) ==
    /\ server = "uring"
    /\ booted
    /\ resp = NoResp
    /\ \E r \in {UringResponse(method, path, a)} :
           /\ resp' = r
           /\ wire' = Wire(inm, UringWire(r, fastRoutes))
    /\ UNCHANGED <<cvars, booted, faulty, staticCache, fs, writes, routes, responses, fastRoutes, bufResponses,
                   vvars, nvars, bvars, pvars, hvars, kvars, zvars, mvars>>

\* server_multiuring.rs run_worker with the bytes it writes
MultiUringServe(method, path, a, inm) ==
    /\ server = "multiuring"
    /\ booted
    /\ resp = NoResp
    /\ \E r \in {MultiUringResponse(method, path, a)} :
           /\ resp' = r
           /\ wire' = Wire(inm, MultiUringWire(r, fastRoutes))
    /\ UNCHANGED <<cvars, booted, faulty, staticCache, fs, writes, routes, responses, fastRoutes, bufResponses,
                   vvars, nvars, bvars, pvars, hvars, kvars, zvars, mvars>>

\* the bytes have been written and the handler returns
ServeReturns ==
    /\ resp # NoResp
    /\ resp' = NoResp
    /\ wire' = NoWire
    /\ UNCHANGED <<cvars, booted, faulty, staticCache, fs, writes, routes, responses, fastRoutes, bufResponses,
                   vvars, nvars, bvars, pvars, hvars, kvars, zvars, mvars>>

WireMethods == {"GET", "HEAD", "POST", "OPTIONS"}

WirePaths == {INDEX_HTML, P_dslash, P_png, P_env, P_nope, P_health}

\* no If-None-Match header, or one that carries the ETag of an indexed route
NoHeader == <<"absent">>

IfNoneMatchValues == {NoHeader} \cup {RouteHeaders(fastRoutes[p]).etag : p \in DOMAIN fastRoutes}

InitWire ==
    /\ InitServer
    /\ server \in {"ultra", "uring", "multiuring"}
    /\ ~dev
    /\ IdleValidate /\ IdleNegotiate /\ IdleExtra

NextWire ==
    \/ Boot
    \/ ServeReturns
    \/ \E m \in WireMethods, p \in WirePaths, a \in RequestAccepts, inm \in IfNoneMatchValues :
           UltraServe(m, p, a, inm)
    \/ \E m \in WireMethods, p \in WirePaths, a \in RequestAccepts, inm \in IfNoneMatchValues :
           UringServe(m, p, a, inm)
    \/ \E m \in WireMethods, p \in WirePaths, a \in RequestAccepts, inm \in IfNoneMatchValues :
           MultiUringServe(m, p, a, inm)

SpecWire == InitWire /\ [][NextWire]_vars

\* ---------------------------------------------------------------------------
\* C21: every method other than GET and HEAD is answered 405

\* the handler has written its answer to a request
Served == resp # NoResp /\ wire # NoWire

\* C21: a well-formed request whose method is neither GET nor HEAD is answered
\* with status 405, whatever its path, and no route content is served for it
C21_OtherMethodsAnswered405 ==
    (Served /\ resp.method \notin {"GET", "HEAD"}) =>
        (wire.status = 405 /\ resp.body = None)

\* ---------------------------------------------------------------------------
\* C22: HEAD is answered with the headers of GET and no body

\* what the running server answers to a request: the response and its bytes
AnswerTo(method, path, a) ==
    CASE server = "ultra" ->
             Only({[resp |-> u.resp, out |-> UltraWire(u.resp, u.routes)] :
                   u \in {UltraResponse(method, path, a, "none")}})
      [] server = "uring" ->
             Only({[resp |-> r, out |-> UringWire(r, fastRoutes)] :
                   r \in {UringResponse(method, path, a)}})
      [] server = "multiuring" ->
             Only({[resp |-> r, out |-> MultiUringWire(r, fastRoutes)] :
                   r \in {MultiUringResponse(method, path, a)}})

\* C22: when GET of a path is answered 200 from a route, HEAD of the same
\* path with the same Accept-Encoding is answered 200 with exactly the
\* headers of that GET response, its Content-Length being the length of the
\* GET body, and no body byte is written
C22_HeadIsGetWithoutBody ==
    (Served /\ resp.method = "HEAD") =>
        \A g \in {AnswerTo("GET", resp.path, resp.accept)} :
            (g.resp.status = 200 /\ g.resp.key # NoKey) =>
                /\ wire.status = 200
                /\ wire.headers = g.out.headers
                /\ \A v \in HeaderValues(wire, "Content-Length") :
                       ParseDecimal(v) = Len(g.out.body)
                /\ wire.body = <<>>

\* ---------------------------------------------------------------------------
\* C23: If-None-Match with the ETag of the route is answered 304

\* the route whose content the response carries
MatchedRoute ==
    IF server = "ultra" THEN fastRoutes[resp.key]
    ELSE RouteOfKey(fastRoutes, Key(resp.key, resp.encoding))

HeaderNames(r) == {r.headers[i].name : i \in 1..Len(r.headers)}

\* C23: a GET that matches a route and carries an If-None-Match header equal
\* to the ETag of that route (the ETag a 200 response for the path returns) is
\* answered 304 with an empty body and only the ETag and Cache-Control headers
C23_IfNoneMatchAnswered304 ==
    (/\ Served /\ resp.method = "GET" /\ resp.key # NoKey
     /\ wire.if_none_match = RouteHeaders(MatchedRoute).etag) =>
        /\ wire.status = 304
        /\ wire.body = <<>>
        /\ HeaderNames(wire) = {"ETag", "Cache-Control"}

\* ---------------------------------------------------------------------------
\* C27, C28, C29: the headers of the 200 responses that carry a route

\* the handler answered 200 with the content of a route
ServedRoute == Served /\ wire.status = 200 /\ resp.key # NoKey

\* the route has at least one compressed variant
HasVariants(route) ==
    is_some(route.content.gzip) \/ is_some(route.content.brotli) \/ is_some(route.content.zstd)

\* C27: a 200 response for a route carries "Vary: Accept-Encoding" if and
\* only if the route has at least one non-identity variant, whatever the
\* encoding of the response itself
C27_VaryIffVariants ==
    ServedRoute =>
        (HeaderValues(wire, "Vary") = {"Accept-Encoding"} <=> HasVariants(MatchedRoute))

\* the security headers and their values
SecurityHeaderSet ==
    {Header("X-Content-Type-Options", "nosniff"),
     Header("X-Frame-Options", "SAMEORIGIN"),
     Header("Referrer-Policy", "strict-origin-when-cross-origin"),
     Header("Strict-Transport-Security", "max-age=63072000; includeSubDomains"),
     Header("Permissions-Policy", "camera=(), microphone=(), geolocation=()"),
     Header("X-DNS-Prefetch-Control", "off")}

\* C28: every 200 response for a route, in every encoding, carries each of
\* the six security headers with exactly the listed value
C28_SecurityHeadersPresent ==
    ServedRoute =>
        \A h \in SecurityHeaderSet : HeaderValues(wire, h.name) = {h.value}

\* C29: the Cache-Control header of every 200 response for a route is the
\* policy of the MIME class of the route's file: assets immutable for a year,
\* text/html 900 seconds, everything else 3600 seconds
C29_CacheControlByMimeClass ==
    ServedRoute =>
        HeaderValues(wire, "Cache-Control")
            = {IF is_asset(GuessMime(MatchedRoute.path))
               THEN "public, max-age=31536000, immutable"
               ELSE IF GuessMime(MatchedRoute.path) = Mime("text", "html")
               THEN "public, max-age=900"
               ELSE "public, max-age=3600"}

(***************************************************************************)
(* CompressedContent::new applied to one input                             *)
(***************************************************************************)
\* body lengths around the threshold, and short and long ones
CompressLens == {0, 1, COMPRESS_THRESHOLD - 1, COMPRESS_THRESHOLD, COMPRESS_THRESHOLD + 1,
                 2 * COMPRESS_THRESHOLD}

CompressInputs ==
    [called : {FALSE}, plain : {Plain(d, n) : d \in {1, 2}, n \in CompressLens},
     should_compress : BOOLEAN, failing : SUBSET Codecs]

InitCompress ==
    /\ compression \in CompressInputs
    /\ wire = NoWire
    /\ IdleValidate /\ IdleNegotiate /\ IdleServer
    /\ IdleBuild /\ IdlePublish /\ IdleHistory /\ IdleConn /\ IdleLast

\* the call of CompressedContent::new
Compress ==
    /\ ~compression.called
    /\ compression' = [plain |-> compression.plain,
                       should_compress |-> compression.should_compress,
                       failing |-> compression.failing,
                       called |-> TRUE,
                       result |-> CompressedContent_new_result(compression.plain,
                                      compression.should_compress, compression.failing)]
    /\ UNCHANGED <<svars, vvars, nvars, bvars, pvars, hvars, kvars, wire, mvars>>

NextCompress == Compress

SpecCompress == InitCompress /\ [][NextCompress]_vars

\* ---------------------------------------------------------------------------
\* C24: CompressedContent::new gives all three variants or none

\* the compressed variants a content has
VariantsOf(c) ==
    {codec \in Codecs :
        is_some(CASE codec = "gzip" -> c.gzip [] codec = "br" -> c.brotli
                  [] codec = "zstd" -> c.zstd)}

\* C24: a successful CompressedContent::new returns all three of gzip, brotli
\* and zstd exactly when the content is compressible and at least 1024 bytes
\* long, and none of them otherwise (1023 bytes: none, 1024: all three); when
\* compression is due and any codec fails the call fails and returns no
\* partial set
C24_AllVariantsOrNone ==
    compression.called =>
        LET due == compression.should_compress
                   /\ compression.plain.len >= COMPRESS_THRESHOLD
            r == compression.result
        IN  /\ r.ok => /\ VariantsOf(r.value) = (IF due THEN Codecs ELSE {})
                       /\ r.value.plain = compression.plain
                       /\ \A codec \in VariantsOf(r.value) :
                              Decode(CASE codec = "gzip" -> "Gzip" [] codec = "br" -> "Brotli"
                                       [] codec = "zstd" -> "Zstd",
                                     CASE codec = "gzip" -> r.value.gzip
                                       [] codec = "br" -> r.value.brotli
                                       [] codec = "zstd" -> r.value.zstd) = compression.plain
            /\ (due /\ compression.failing # {}) => ~r.ok
            /\ (~due \/ compression.failing = {}) => r.ok

\* compression was due for a body of exactly 1024 bytes and one codec failed
C24_Witness ==
    /\ compression.called
    /\ compression.should_compress
    /\ compression.plain.len = COMPRESS_THRESHOLD
    /\ Cardinality(compression.failing) = 1
    /\ ~compression.result.ok

(***************************************************************************)
(* The boot of a directory in which files fail to be read or compressed    *)
(***************************************************************************)
\* file lengths at boot: below and above the size from which
\* create_fast_route maps the file into memory
BootLens(file_path) ==
    {IF is_compressible(GuessMime(file_path)) THEN COMPRESS_THRESHOLD ELSE 8,
     MMAP_THRESHOLD + 1}

\* at most two files fail
BootFaults ==
    {flt \in [Files -> Faults] : Cardinality({f \in Files : flt[f] # "none"}) <= 2}

InitBoot ==
    /\ server \in Servers
    /\ spa_mode \in BOOLEAN
    /\ dev = FALSE
    /\ booted = FALSE
    /\ faulty \in BootFaults
    /\ staticCache = {}
    /\ fs \in {d \in [Files -> [data : {1}, len : {8, COMPRESS_THRESHOLD, MMAP_THRESHOLD + 1},
                                mtime : {0}]] :
                  \A f \in Files : d[f].len \in BootLens(f)}
    /\ writes = 0
    /\ routes = EmptyMap
    /\ responses = ResponseCache_new
    /\ fastRoutes = EmptyMap
    /\ bufResponses = EmptyMap
    /\ resp = NoResp
    /\ IdleValidate /\ IdleNegotiate /\ IdleExtra

NextBoot == Boot

SpecBoot == InitBoot /\ [][NextBoot]_vars

\* ---------------------------------------------------------------------------
\* C25: a file that fails at boot is skipped and leaves nothing behind

\* the files whose read or compression fails
Failing == {f \in Files : faulty[f] \in {"read", "compress"}}

\* the directory without the failing files: WalkDir does not yield them
WithoutFailing == [f \in Files |-> IF f \in Failing THEN "metadata" ELSE faulty[f]]

\* the url keys of every map of the index
IndexKeys ==
    (DOMAIN routes) \cup UNION {DOMAIN responses[e] : e \in Encodings}
    \cup (DOMAIN fastRoutes) \cup {k.path : k \in DOMAIN bufResponses} \cup staticCache

\* C25: the boot succeeds whatever files fail to be read or compressed; the
\* routes and responses are those of a boot of the directory without the
\* failing files, and no map of the index (routes, responses, pre-built
\* buffers, static_cache) has an entry under the url of a failing file
C25_FailingFileSkipped ==
    booted =>
        /\ server = "nanoweb" =>
               /\ routes = populate_routes(fs, WithoutFailing).routes
               /\ responses = populate_routes(fs, WithoutFailing).responses
        /\ server # "nanoweb" => fastRoutes = populate_fast_routes(fs, WithoutFailing)
        /\ \A f \in Failing : file_path_to_url(f) \notin IndexKeys

(***************************************************************************)
(* The boot of directories with index files at several depths, one of them *)
(* below a directory that is itself named index.html                       *)
(***************************************************************************)
\* a directory holds no file and subdirectory of the same name
Directories ==
    {S \in SUBSET {FileOrder[i] : i \in 1..Len(FileOrder)} :
        S # {} /\ ~(FP_index \in S /\ FP_iindex \in S)}

InitAlias ==
    /\ server \in Servers
    /\ spa_mode \in BOOLEAN
    /\ dev = FALSE
    /\ booted = FALSE
    /\ \E S \in Directories :
           /\ fs = [f \in S |-> [data |-> 1, mtime |-> 0,
                                 len |-> IF is_compressible(GuessMime(f))
                                         THEN COMPRESS_THRESHOLD ELSE 8]]
           /\ faulty = [f \in S |-> "none"]
    /\ staticCache = {}
    /\ writes = 0
    /\ routes = EmptyMap
    /\ responses = ResponseCache_new
    /\ fastRoutes = EmptyMap
    /\ bufResponses = EmptyMap
    /\ resp = NoResp
    /\ IdleValidate /\ IdleNegotiate /\ IdleExtra

NextAlias == Boot

SpecAlias == InitAlias /\ [][NextAlias]_vars

\* ---------------------------------------------------------------------------
\* C26: one directory alias for every index file, and for no other file

\* the urls of the files of the directory
FileUrls == {file_path_to_url(f) : f \in DOMAIN fs}

\* the alias of the url D + "/index.html": D + "/", which is "/" when D is empty
AliasOf(url) == SubSeq(url, 1, Len(url) - Len(INDEX_HTML)) \o <<SLASH>>

ExpectedAliases == {AliasOf(u) : u \in {x \in FileUrls : ends_with(x, INDEX_HTML)}}

\* the url keys of the route maps of the running server
RouteKeys ==
    IF server = "nanoweb" THEN (DOMAIN routes) \cup DOMAIN responses["Identity"]
    ELSE IF server = "ultra" THEN DOMAIN fastRoutes
    ELSE (DOMAIN fastRoutes) \cup {k.path : k \in DOMAIN bufResponses}

\* C26: after boot the keys of the index are the urls of the files and, for
\* every file whose url is D + "/index.html", the one alias D + "/" ("/" when
\* D is empty), also when D itself ends in "/index.html"; nothing else is a key
C26_OneAliasPerIndexFile ==
    booted => RouteKeys = FileUrls \cup ExpectedAliases

\* ---------------------------------------------------------------------------
\* C32: the health endpoint

\* "{\"status\":\"ok\",\"timestamp\":\""
HealthPrefix == SubSeq(T_Health, 1, 28)

\* "\"}"
HealthSuffix == <<34, 125>>

\* a handler has answered GET /_health in this step
HealthAnswered == resp = NoResp /\ resp' # NoResp /\ resp'.method = "GET" /\ resp'.path = P_health

\* C32: the bytes written for GET /_health are a 200 with Content-Type
\* application/json, a body that begins {"status":"ok","timestamp":" and ends
\* "}, and a Content-Length that is the number of bytes of that body; and the
\* step looks up no route and leaves the route index as it was
C32_HealthResponse ==
    [][HealthAnswered =>
          /\ wire'.status = 200
          /\ HeaderValues(wire', "Content-Type") = {"application/json"}
          /\ starts_with(wire'.body, HealthPrefix)
          /\ ends_with(wire'.body, HealthSuffix)
          /\ HeaderValues(wire', "Content-Length") = {to_string(Len(wire'.body))}
          /\ resp'.key = NoKey
          /\ fastRoutes' = fastRoutes /\ bufResponses' = bufResponses]_vars

(***************************************************************************)
(* The write of one response to the socket, when a write may accept fewer  *)
(* bytes than it was given.                                                *)
(***************************************************************************)

\* the longest response, in bytes of this model
MaxResponse == 3

ResponseLens == 1..MaxResponse

\* the statuses a handler writes: 200 is the pre-built buffer of a route
DrainStatuses == {200, 400, 404, 405}

\* the handler has parsed a request and dispatched it, and holds the response
Dispatched(status, len, keep_alive) ==
    [phase |-> "writing", status |-> status, len |-> len, written |-> 0,
     keep_alive |-> keep_alive, failed |-> FALSE, served |-> 0]

\* tokio AsyncWriteExt::write_all and server_uring.rs write_all: the loop is
\* left when every byte has been accepted
WriteAllDone(n) == drain.written + n = drain.len

\* ultra_server.rs write_fast_response / write_error_response: one step of
\* stream.write_all, which accepted n bytes; the handler returns after the
\* last and the stream is dropped
UltraWrite(n) ==
    /\ server = "ultra"
    /\ drain.phase = "writing"
    /\ n <= drain.len - drain.written
    /\ drain' = [drain EXCEPT !.written = drain.written + n,
                               !.phase = IF WriteAllDone(n) THEN "closed" ELSE "writing"]
    /\ UNCHANGED <<fvars, racers, ring, acceptor, limiter>>

\* ultra_server.rs: stream.write_all(..).await? returns the error
UltraWriteError ==
    /\ server = "ultra"
    /\ drain.phase = "writing"
    /\ drain' = [drain EXCEPT !.failed = TRUE, !.phase = "closed"]
    /\ UNCHANGED <<fvars, racers, ring, acceptor, limiter>>

\* server_uring.rs handle_connection after a write that returned Ok: the 400
\* of a parse error leaves the loop, the others test keep_alive
UringAfterWrite == IF drain.status = 400 \/ ~drain.keep_alive THEN "closed" ELSE "reading"

\* server_uring.rs: write_fixed (202-218) submits the registered buffer once
\* and returns Ok when n > 0; write_all (221-236) loops on the rest
UringWrite(n) ==
    /\ server = "uring"
    /\ drain.phase = "writing"
    /\ n <= drain.len - drain.written
    /\ drain' = [drain EXCEPT
           !.written = drain.written + n,
           !.phase = IF drain.status = 200 \/ WriteAllDone(n)
                     THEN UringAfterWrite ELSE "writing"]
    /\ UNCHANGED <<fvars, racers, ring, acceptor, limiter>>

\* server_uring.rs: the write returned an error or 0: the loop is left, but
\* after the 405 the result is dropped and keep_alive is tested
UringWriteError ==
    /\ server = "uring"
    /\ drain.phase = "writing"
    /\ drain' = [drain EXCEPT
           !.failed = TRUE,
           !.phase = IF drain.status = 405 /\ drain.keep_alive THEN "reading" ELSE "closed"]
    /\ UNCHANGED <<fvars, racers, ring, acceptor, limiter>>

\* server_multiuring.rs run_worker, OpType::Write(conn_id): the completion of
\* the one write submitted for the response, whatever its result, removes the
\* connection and closes the descriptor
MultiUringWriteCompletion(n) ==
    /\ server = "multiuring"
    /\ drain.phase = "writing"
    /\ n <= drain.len
    /\ drain' = [drain EXCEPT !.written = n, !.failed = (n = 0), !.phase = "closed"]
    /\ UNCHANGED <<fvars, racers, ring, acceptor, limiter>>

\* server_uring.rs handle_connection: the next turn of the loop read, parsed
\* and dispatched the next request of the connection
NextRequest(status, len, keep_alive) ==
    /\ drain.phase = "reading"
    /\ drain.served < MaxRequests
    /\ drain' = [Dispatched(status, len, keep_alive) EXCEPT !.served = drain.served + 1]
    /\ UNCHANGED <<fvars, racers, ring, acceptor, limiter>>

InitDrain ==
    /\ server \in {"ultra", "uring", "multiuring"}
    /\ spa_mode = FALSE /\ dev = FALSE /\ booted = FALSE
    /\ faulty = EmptyMap /\ staticCache = {} /\ fs = EmptyMap /\ writes = 0
    /\ routes = EmptyMap /\ responses = ResponseCache_new
    /\ fastRoutes = EmptyMap /\ bufResponses = EmptyMap /\ resp = NoResp
    /\ IdleFirst
    /\ drain \in {Dispatched(status, len, keep_alive) :
                      status \in DrainStatuses, len \in ResponseLens, keep_alive \in BOOLEAN}
    /\ racers = NoRacers /\ ring = NoRing /\ acceptor = NoAcceptor /\ limiter = NoLimiter

NextDrain ==
    \/ \E n \in ResponseLens : UltraWrite(n)
    \/ UltraWriteError
    \/ \E n \in ResponseLens : UringWrite(n)
    \/ UringWriteError
    \/ \E n \in 0..MaxResponse : MultiUringWriteCompletion(n)
    \/ \E status \in DrainStatuses, len \in ResponseLens, keep_alive \in BOOLEAN :
           NextRequest(status, len, keep_alive)

SpecDrain == InitDrain /\ [][NextDrain]_vars

\* C31: when the handler has left the write of a response, to close the
\* connection or to read the next request, every byte of the response has
\* been accepted by the socket or a write has failed
C31_ResponseWrittenCompletely ==
    drain.phase \in {"reading", "closed"} => (drain.written = drain.len \/ drain.failed)

(***************************************************************************)
(* routes.rs: several handlers run refresh_if_modified on one route while  *)
(* the file is rewritten.  Each step is one access of a handler to the     *)
(* route map, the file system or the response cache.                       *)
(***************************************************************************)

MaxHandlers == 2

Handlers == 1..MaxHandlers

\* the number of times the file is rewritten
MaxTouches == 2

RaceUrls == {INDEX_HTML, P_png}

\* a handler that is not inside refresh_if_modified
IdleHandler == [pc |-> "idle"]

\* the file content create_route reads, with the metadata that was taken
\* before the read
ReadWith(file, metadata) == [file EXCEPT !.mtime = metadata]

\* routes.rs 286-289: self.routes.get(url_path), the clone of the route
RaceLookup(h) ==
    /\ server = "nanoweb" /\ booted /\ dev
    /\ racers.h[h].pc = "idle"
    /\ Has(routes, racers.url)
    /\ racers' = [racers EXCEPT !.h[h] = [pc |-> "metadata", route |-> routes[racers.url]]]
    /\ UNCHANGED <<fvars, drain, ring, acceptor, limiter>>

\* routes.rs 291-292: std::fs::metadata and the comparison of the mtimes
RaceMetadata(h) ==
    /\ racers.h[h].pc = "metadata"
    /\ racers' = [racers EXCEPT !.h[h] =
           IF fs[racers.h[h].route.path].mtime > racers.h[h].route.modified
           THEN [pc |-> "read", route |-> racers.h[h].route,
                 metadata |-> fs[racers.h[h].route.path].mtime]
           ELSE IdleHandler]
    /\ UNCHANGED <<fvars, drain, ring, acceptor, limiter>>

\* routes.rs create_route 160-192: std::fs::read of the file as it is now,
\* templating, compression, and the route and buffers built from it with the
\* mtime of the metadata
RaceRead(h) ==
    /\ racers.h[h].pc = "read"
    /\ \E file_path \in {racers.h[h].route.path} :
       \E file \in {ReadWith(fs[file_path], racers.h[h].metadata)} :
         racers' = [racers EXCEPT !.h[h] =
            [pc |-> "insert",
             route |-> [content |-> ProcessFile(file_path, file), path |-> file_path,
                        modified |-> file.mtime],
             pending |-> create_route_inserts(file_path, file),
             version |-> fs[file_path].mtime]]
    /\ UNCHANGED <<fvars, drain, ring, acceptor, limiter>>

\* routes.rs create_route 194-251: the next self.responses.insert
RaceInsert(h) ==
    /\ racers.h[h].pc = "insert"
    /\ racers.h[h].pending # <<>>
    /\ responses' = ResponseCache_insert(responses, racers.url,
                                         racers.h[h].pending[1].encoding,
                                         racers.h[h].pending[1].buffer)
    /\ racers' = [racers EXCEPT
           !.h[h].pending = Tail(@),
           !.source[racers.h[h].pending[1].encoding] = racers.h[h].version]
    /\ UNCHANGED <<cvars, booted, faulty, staticCache, fs, writes, routes, fastRoutes,
                   bufResponses, resp, vvars, nvars, bvars, pvars, hvars, kvars, wire, zvars,
                   drain, ring, acceptor, limiter>>

\* routes.rs 296-297: self.routes.insert(new_url, new_route) and the return
RacePublish(h) ==
    /\ racers.h[h].pc = "insert"
    /\ racers.h[h].pending = <<>>
    /\ routes' = Put(routes, racers.url, racers.h[h].route)
    /\ racers' = [racers EXCEPT !.h[h] = IdleHandler]
    /\ UNCHANGED <<cvars, booted, faulty, staticCache, fs, writes, responses, fastRoutes,
                   bufResponses, resp, vvars, nvars, bvars, pvars, hvars, kvars, wire, zvars,
                   drain, ring, acceptor, limiter>>

\* the environment rewrites the file of the route, with a later mtime
TouchFile(len) ==
    /\ booted
    /\ racers.touches < MaxTouches
    /\ \E file_path \in {routes[racers.url].path} :
         /\ fs[file_path].mtime < MaxTime
         /\ fs' = [fs EXCEPT ![file_path] = [data |-> 3 - @.data, len |-> len,
                                             mtime |-> @.mtime + 1]]
    /\ racers' = [racers EXCEPT !.touches = @ + 1]
    /\ UNCHANGED <<cvars, booted, faulty, staticCache, writes, routes, responses, fastRoutes,
                   bufResponses, resp, vvars, nvars, bvars, pvars, hvars, kvars, wire, zvars,
                   drain, ring, acceptor, limiter>>

InitRace ==
    /\ InitServer
    /\ server = "nanoweb"
    /\ dev
    /\ IdleFirst
    /\ racers \in {[url |-> u, h |-> [h \in Handlers |-> IdleHandler], touches |-> 0,
                     source |-> [e \in Encodings |-> 0]] : u \in RaceUrls}
    /\ drain = NoDrain /\ ring = NoRing /\ acceptor = NoAcceptor /\ limiter = NoLimiter

NextRace ==
    \/ Boot
    \/ \E len \in FileLens : TouchFile(len)
    \/ \E h \in Handlers : RaceLookup(h)
    \/ \E h \in Handlers : RaceMetadata(h)
    \/ \E h \in Handlers : RaceRead(h)
    \/ \E h \in Handlers : RaceInsert(h)
    \/ \E h \in Handlers : RacePublish(h)

SpecRace == InitRace /\ [][NextRace]_vars

\* no handler is inside refresh_if_modified
AllFinished == \A h \in Handlers : racers.h[h].pc = "idle"

\* the encodings of the pre-built responses of the stored route
RouteEncodings(route) ==
    {"Identity"} \cup (IF is_some(route.content.gzip) THEN {"Gzip"} ELSE {})
                 \cup (IF is_some(route.content.brotli) THEN {"Brotli"} ELSE {})
                 \cup (IF is_some(route.content.zstd) THEN {"Zstd"} ELSE {})

\* C33: when no handler is inside refresh_if_modified, the mtime stored in the
\* route is not newer than the mtime of the file version that each pre-built
\* response of the route was built from, so that a response built from an
\* older version is refreshed by the next request
C33_StoredMtimeNotNewerThanBuffers ==
    (booted /\ AllFinished) =>
        \A e \in RouteEncodings(routes[racers.url]) :
            routes[racers.url].modified <= racers.source[e]

(***************************************************************************)
(* server_multiuring.rs run_worker: the connection table of one worker,    *)
(* the operations it has submitted to its ring, and the descriptors of     *)
(* the process.  One action is the handling of one completion.             *)
(***************************************************************************)

\* the number of connections one worker accepts in this model
MaxConns == 3

\* the number of client descriptors the process can hold open at a time
MaxFds == 2

\* the descriptors the kernel gives to client sockets
FdPool == 1..MaxFds

\* the number of reads that fill the 8 KiB read buffer of a connection
BufferChunks == 2

ConnIds == 1..MaxConns

\* OpType: Accept, Read(conn_id), Write(conn_id)
OpType(type, id) == [type |-> type, id |-> id]

OpTypes == {OpType("Accept", 0)} \cup {OpType(t, id) : t \in {"Read", "Write"}, id \in ConnIds}

\* submit_accept, submit_read, submit_write_*: one more operation in flight
Submit(ops, op) == [ops EXCEPT ![op] = @ + 1]

\* the completion of the operation was taken from the completion queue
Complete(ops, op) == [ops EXCEPT ![op] = @ - 1]

\* a map without the key k
Remove(m, k) == [x \in (DOMAIN m) \ {k} |-> m[x]]

\* libc::close(fd) called for the connection id: the descriptor leaves the
\* descriptors of the process; a call on a descriptor that is not open, or
\* that the kernel has given to another connection since, is recorded
close(r, id, fd) ==
    IF fd \in DOMAIN r.open /\ r.open[fd] = id
    THEN [r EXCEPT !.open = Remove(r.open, fd), !.closes[id] = @ + 1]
    ELSE [r EXCEPT !.closes[id] = @ + 1, !.bad_close = TRUE]

\* a handler that closes the descriptor and leaves the connection in the table
CloseConnection_kept(r, conn_id) ==
    IF conn_id \in DOMAIN r.connections
    THEN close(r, conn_id, r.connections[conn_id].fd)
    ELSE [r EXCEPT !.stale = TRUE]

\* run_worker 211-218 and 269-276: if let Some(conn) =
\* connections.remove(&conn_id) { libc::close(conn.fd) }
CloseConnection(r, conn_id) ==
    IF conn_id \in DOMAIN r.connections
    THEN close([r EXCEPT !.connections = Remove(r.connections, conn_id)],
               conn_id, r.connections[conn_id].fd)
    ELSE [r EXCEPT !.stale = TRUE]

\* run_worker 149-155: the empty table, the counter at 1 and the first accept
Worker ==
    [phase |-> "running",
     connections |-> EmptyMap,
     user_data_counter |-> 1,
     ops |-> [op \in OpTypes |-> IF op.type = "Accept" THEN 1 ELSE 0],
     open |-> EmptyMap,
     closes |-> [id \in ConnIds |-> 0],
     bad_close |-> FALSE,
     stale |-> FALSE]

\* run_worker 177-183, OpType::Accept with result < 0: the accept is submitted again
AcceptFailed ==
    /\ ring.phase = "running"
    /\ ring.ops[OpType("Accept", 0)] > 0
    /\ ring' = [ring EXCEPT !.ops = Submit(Complete(ring.ops, OpType("Accept", 0)),
                                           OpType("Accept", 0))]
    /\ UNCHANGED <<fvars, drain, racers, acceptor, limiter>>

\* run_worker 185-207, OpType::Accept with a client descriptor: the connection
\* enters the table under the next id, a read is submitted for it and the
\* accept is submitted again
Accepted(client_fd) ==
    /\ ring.phase = "running"
    /\ ring.ops[OpType("Accept", 0)] > 0
    /\ ring.user_data_counter <= MaxConns
    /\ client_fd \notin DOMAIN ring.open
    /\ \E conn_id \in {ring.user_data_counter} :
         ring' = [ring EXCEPT
            !.open = Put(ring.open, client_fd, conn_id),
            !.user_data_counter = @ + 1,
            !.connections = Put(ring.connections, conn_id, [fd |-> client_fd, bytes_read |-> 0]),
            !.ops = Submit(Submit(Complete(ring.ops, OpType("Accept", 0)),
                                  OpType("Read", conn_id)),
                           OpType("Accept", 0))]
    /\ UNCHANGED <<fvars, drain, racers, acceptor, limiter>>

\* run_worker 209-218, OpType::Read with result <= 0
ReadClosed(conn_id) ==
    /\ ring.phase = "running"
    /\ ring.ops[OpType("Read", conn_id)] > 0
    /\ ring' = CloseConnection([ring EXCEPT !.ops = Complete(@, OpType("Read", conn_id))],
                               conn_id)
    /\ UNCHANGED <<fvars, drain, racers, acceptor, limiter>>

\* run_worker 220-266, OpType::Read with result > 0: a write is submitted for
\* a request that parses (the buffer, the 404 or the 400), for an invalid one
\* (400) and for an incomplete one that fills the buffer (413); otherwise
\* another read
ReadData(conn_id, parsed) ==
    /\ ring.phase = "running"
    /\ ring.ops[OpType("Read", conn_id)] > 0
    /\ \E r \in {[ring EXCEPT !.ops = Complete(@, OpType("Read", conn_id))]} :
         IF conn_id \in DOMAIN r.connections
         THEN \E bytes_read \in {r.connections[conn_id].bytes_read + 1} :
                /\ bytes_read <= BufferChunks
                /\ ring' = [r EXCEPT
                      !.connections[conn_id].bytes_read = bytes_read,
                      !.ops = Submit(@, IF parsed = "Incomplete" /\ bytes_read < BufferChunks
                                        THEN OpType("Read", conn_id)
                                        ELSE OpType("Write", conn_id))]
         ELSE ring' = [r EXCEPT !.stale = TRUE]
    /\ UNCHANGED <<fvars, drain, racers, acceptor, limiter>>

\* run_worker 269-276, OpType::Write
WriteCompleted(conn_id) ==
    /\ ring.phase = "running"
    /\ ring.ops[OpType("Write", conn_id)] > 0
    /\ ring' = CloseConnection([ring EXCEPT !.ops = Complete(@, OpType("Write", conn_id))],
                               conn_id)
    /\ UNCHANGED <<fvars, drain, racers, acceptor, limiter>>

\* run_worker 163: ring.submit_and_wait(1)? returns the error and the worker
\* thread ends; nothing is handled after it
WorkerDied ==
    /\ ring.phase = "running"
    /\ ring' = [ring EXCEPT !.phase = "stopped"]
    /\ UNCHANGED <<fvars, drain, racers, acceptor, limiter>>

InitRing ==
    /\ InitServer
    /\ server = "multiuring"
    /\ IdleFirst
    /\ ring = Worker
    /\ drain = NoDrain /\ racers = NoRacers /\ acceptor = NoAcceptor /\ limiter = NoLimiter

NextRing ==
    \/ AcceptFailed
    \/ \E client_fd \in FdPool : Accepted(client_fd)
    \/ \E conn_id \in ConnIds : ReadClosed(conn_id)
    \/ \E conn_id \in ConnIds, parsed \in {"Ok", "Invalid", "Incomplete"} :
           ReadData(conn_id, parsed)
    \/ \E conn_id \in ConnIds : WriteCompleted(conn_id)
    \/ WorkerDied

SpecRing == InitRing /\ [][NextRing]_vars

\* the operations in flight for a connection id
Outstanding(conn_id) == ring.ops[OpType("Read", conn_id)] + ring.ops[OpType("Write", conn_id)]

\* the descriptor of the connection is open
DescriptorOpen(conn_id) == \E fd \in DOMAIN ring.open : ring.open[fd] = conn_id

MaxClients == 3

\* the number of accepts that fail
MaxFailures == 2

\* the listener is bound and the loop waits in its first accept
Listening == [phase |-> "accepting", arrived |-> 0, accepted |-> 0, handled |-> 0, failures |-> 0]

\* a client connects: its connection waits in the backlog of the listener
ClientArrives ==
    /\ acceptor.arrived < MaxClients
    /\ acceptor' = [acceptor EXCEPT !.arrived = @ + 1]
    /\ UNCHANGED <<fvars, drain, racers, ring, limiter>>

\* an accept returns the oldest waiting connection, or fails
AcceptReturns(ok) ==
    /\ acceptor.phase = "accepting"
    /\ IF ok THEN acceptor.accepted < acceptor.arrived ELSE acceptor.failures < MaxFailures

\* ultra_server.rs 55-65: let (stream, addr) = listener.accept().await?; the
\* handler is spawned and the loop accepts again; an error is returned from
\* start_ultra_server
UltraAccept(ok) ==
    /\ server = "ultra"
    /\ AcceptReturns(ok)
    /\ acceptor' = IF ok THEN [acceptor EXCEPT !.accepted = @ + 1]
                   ELSE [acceptor EXCEPT !.failures = @ + 1, !.phase = "stopped"]
    /\ UNCHANGED <<fvars, drain, racers, ring, limiter>>

\* server_uring.rs serve 67-86: match listener.accept().await: Ok spawns the
\* handler, Err is logged, and the loop accepts again
UringAccept(ok) ==
    /\ server = "uring"
    /\ AcceptReturns(ok)
    /\ acceptor' = IF ok THEN [acceptor EXCEPT !.accepted = @ + 1]
                   ELSE [acceptor EXCEPT !.failures = @ + 1]
    /\ UNCHANGED <<fvars, drain, racers, ring, limiter>>

\* server_multiuring.rs run_worker 176-207: OpType::Accept: a negative result
\* submits the accept again; a descriptor enters the table with a read and
\* the accept is submitted again
MultiUringAccept(ok) ==
    /\ server = "multiuring"
    /\ AcceptReturns(ok)
    /\ acceptor' = IF ok THEN [acceptor EXCEPT !.accepted = @ + 1]
                   ELSE [acceptor EXCEPT !.failures = @ + 1]
    /\ UNCHANGED <<fvars, drain, racers, ring, limiter>>

\* the handler of an accepted connection runs: the spawned task of the tokio
\* servers, the completions of the connection in the io_uring worker
ConnectionHandled ==
    /\ acceptor.handled < acceptor.accepted
    /\ acceptor' = [acceptor EXCEPT !.handled = @ + 1]
    /\ UNCHANGED <<fvars, drain, racers, ring, limiter>>

InitAccept ==
    /\ InitServer
    /\ server \in {"ultra", "uring", "multiuring"}
    /\ IdleFirst
    /\ acceptor = Listening
    /\ drain = NoDrain /\ racers = NoRacers /\ ring = NoRing /\ limiter = NoLimiter

\* an accept returns a connection
AcceptSucceeds == UltraAccept(TRUE) \/ UringAccept(TRUE) \/ MultiUringAccept(TRUE)

NextAccept ==
    \/ ClientArrives
    \/ \E ok \in BOOLEAN : UltraAccept(ok)
    \/ \E ok \in BOOLEAN : UringAccept(ok)
    \/ \E ok \in BOOLEAN : MultiUringAccept(ok)
    \/ ConnectionHandled

SpecAccept == InitAccept /\ [][NextAccept]_vars

\* the kernel completes an accept that is waiting while a connection is in
\* the backlog, and the runtime runs a handler that was spawned
SpecAcceptLive == SpecAccept /\ WF_vars(AcceptSucceeds) /\ WF_vars(ConnectionHandled)

\* C35: every client that connects is eventually accepted and handled,
\* whatever accepts failed before: the n-th connection to arrive leads to the
\* n-th connection handled
C35_FailedAcceptNeverStopsAccepting ==
    \A n \in 1..MaxClients : (acceptor.arrived >= n) ~> (acceptor.handled >= n)

(***************************************************************************)
(* The frame of refresh_if_modified: routes.rs (routes and responses) and  *)
(* fast_routes.rs / server.rs (routes and static_cache), in dev mode, with *)
(* files that cross the compression and the memory-mapping thresholds.     *)
(***************************************************************************)

\* the lengths a file is rewritten with
FrameLens == {COMPRESS_THRESHOLD - 1, COMPRESS_THRESHOLD, MMAP_THRESHOLD + 1}

\* a refresh that files the memory map under the path of the request
refresh_static_cache_by_path(cache, rts, path, disk, fault) ==
    IF /\ Has(rts, path)
       /\ fault # "metadata"
       /\ disk[rts[path].path].mtime > rts[path].modified
       /\ create_fast_route(rts[path].path, disk[rts[path].path], fault).mmap
    THEN cache \cup {path}
    ELSE cache

\* fast_routes.rs / server.rs refresh_if_modified: the static_cache after the
\* call; create_fast_route inserts the url of a file of more than 8192 bytes
\* before it reads the file
refresh_static_cache(cache, rts, path, disk, fault) ==
    IF /\ Has(rts, path)
       /\ fault # "metadata"
       /\ disk[rts[path].path].mtime > rts[path].modified
       /\ create_fast_route(rts[path].path, disk[rts[path].path], fault).mmap
    THEN cache \cup {create_fast_route(rts[path].path, disk[rts[path].path], fault).url_path}
    ELSE cache

\* fast_routes.rs UltraFastServer::refresh_if_modified and server.rs
\* NanoWeb::refresh_if_modified, called for one path
FastRefresh(path, fault) ==
    /\ server = "ultra"
    /\ booted
    /\ dev
    /\ fastRoutes' = fast_refresh_if_modified(fastRoutes, path, fs, fault).routes
    /\ staticCache' = refresh_static_cache(staticCache, fastRoutes, path, fs, fault)
    /\ UNCHANGED <<cvars, booted, faulty, fs, writes, routes, responses, bufResponses, resp,
                   vvars, nvars, xvars>>

InitFrame ==
    /\ InitServer
    /\ server \in {"nanoweb", "ultra"}
    /\ dev
    /\ IdleValidate /\ IdleNegotiate /\ IdleExtra

NextFrame ==
    \/ Boot
    \/ \E f \in Files, len \in FrameLens, later \in {0, 1} : WriteFile(f, len, later)
    \/ \E p \in RequestPaths, fault \in Faults : Refresh(p, fault)
    \/ \E p \in RequestPaths, fault \in Faults : FastRefresh(p, fault)

SpecFrame == InitFrame /\ [][NextFrame]_vars

\* the route map of the running server
RouteMap == IF server = "nanoweb" THEN routes ELSE fastRoutes

\* the call refresh_if_modified(p) with some outcome of its I/O
RefreshOf(p) == \E fault \in Faults : Refresh(p, fault) \/ FastRefresh(p, fault)

\* the urls of the routes that do not belong to the file
OtherUrls(source) == {k \in DOMAIN RouteMap : RouteMap[k].path # source}

\* the entries of these urls are what they were
EntriesUnchanged(urls) ==
    /\ \A k \in urls \cap DOMAIN routes : k \in DOMAIN routes' /\ routes'[k] = routes[k]
    /\ \A k \in urls \cap DOMAIN fastRoutes :
          k \in DOMAIN fastRoutes' /\ fastRoutes'[k] = fastRoutes[k]
    /\ \A e \in Encodings : \A k \in urls \cap DOMAIN responses[e] :
          k \in DOMAIN responses'[e] /\ responses'[e][k] = responses[e][k]
    /\ urls \cap staticCache \subseteq staticCache'

\* the keys the step added to the index maps
AddedKeys ==
    (DOMAIN routes' \ DOMAIN routes) \cup (DOMAIN fastRoutes' \ DOMAIN fastRoutes)
    \cup UNION {DOMAIN responses'[e] \ DOMAIN responses[e] : e \in Encodings}
    \cup (staticCache' \ staticCache)

IndexUnchanged ==
    /\ routes' = routes /\ responses' = responses
    /\ fastRoutes' = fastRoutes /\ staticCache' = staticCache

\* the call has nothing to refresh: p is not a route, or the file is not newer
NothingToRefresh(p) ==
    ~Has(RouteMap, p) \/ fs[RouteMap[p].path].mtime <= RouteMap[p].modified

EtagPaths == {INDEX_HTML, P_root, P_png}

InitEtag ==
    /\ InitServer
    /\ server = "nanoweb"
    /\ dev
    /\ IdleValidate /\ IdleNegotiate /\ IdleExtra

NextEtag ==
    \/ Boot
    \/ \E keep \in BOOLEAN : HandlerReturnsRecorded(keep)
    \/ \E f \in Files, len \in FileLens, later \in {0, 1} : WriteFile(f, len, later)
    \/ \E p \in EtagPaths, fault \in Faults : Refresh(p, fault)
    \/ \E p \in EtagPaths, a \in RequestAccepts : GetResponse(p, a)

SpecEtag == InitEtag /\ [][NextEtag]_vars

\* the response carries the identity body of a route
ServedIdentity(r) ==
    /\ r # NoResp
    /\ r.buffer # NoBuffer
    /\ r.buffer.content_encoding = "none"

\* ---------------------------------------------------------------------------
\* C37: the ETag identifies the served content of a path: when two responses
\* served for the same path, one before and one after dev-mode refreshes,
\* carry different identity bodies, their ETags differ.
C37_EtagIdentifiesContent ==
    (/\ ServedIdentity(prev) /\ ServedIdentity(resp)
     /\ prev.path = resp.path
     /\ prev.buffer.body # resp.buffer.body)
        => prev.buffer.etag # resp.buffer.etag

(***************************************************************************)
(* security.rs RateLimiter: concurrent is_allowed and cleanup calls on one *)
(* limiter.  Instants are whole seconds of a monotonic clock.              *)
(***************************************************************************)
MaxAllowed == 1      \* max_requests is drawn from 0..MaxAllowed
MaxWindow == 1       \* window_seconds is drawn from 0..MaxWindow
MaxClock == 2        \* the clock stops here
MaxCallers == 2      \* threads that can be inside is_allowed at once

Ips == {"10.0.0.1", "10.0.0.2"}

NoEntry == [present |-> FALSE, last_reset |-> 0, count |-> 0]
EntryOf(last_reset, count) == [present |-> TRUE, last_reset |-> last_reset, count |-> count]
\* a thread inside is_allowed that has read the clock
Call(ip, now) == [ip |-> ip, now |-> now]
NoSweep == [pc |-> "idle", cutoff |-> 0, todo |-> {}]
NoAnswer == [ip |-> "none", allowed |-> FALSE, effective |-> 0]

\* RateLimiter::new
RateLimiter_new(max_requests, window_seconds) ==
    [phase |-> "limiting", max_requests |-> max_requests, window_seconds |-> window_seconds,
     requests |-> [ip \in Ips |-> NoEntry],
     clock |-> 0, calls |-> EmptyBag, sweep |-> NoSweep,
     admitted |-> [ip \in Ips |-> 0], last |-> NoAnswer]

\* Instant::duration_since: zero when the earlier instant is the later one
duration_since(now, earlier) == IF now >= earlier THEN now - earlier ELSE 0

\* is_allowed with the entry of the ip locked, counting one request too late
is_allowed_past_limit(entry, now, max_requests, window_seconds) ==
    LET inserted == IF entry.present THEN entry ELSE EntryOf(now, 0)
        expired == duration_since(now, inserted.last_reset) > window_seconds
        current == IF expired THEN EntryOf(now, 0) ELSE inserted
    IN  IF current.count > max_requests
        THEN [entry |-> current, allowed |-> FALSE, fresh |-> expired \/ ~entry.present]
        ELSE [entry |-> [current EXCEPT !.count = @ + 1], allowed |-> TRUE,
              fresh |-> expired \/ ~entry.present]

\* security.rs 182-197, is_allowed with the entry of the ip locked: or_insert,
\* the reset of an expired window, the comparison with max_requests and the
\* increment; `fresh` tells that the entry was created or reset
is_allowed(entry, now, max_requests, window_seconds) ==
    LET inserted == IF entry.present THEN entry ELSE EntryOf(now, 0)
        expired == duration_since(now, inserted.last_reset) > window_seconds
        current == IF expired THEN EntryOf(now, 0) ELSE inserted
    IN  IF current.count >= max_requests
        THEN [entry |-> current, allowed |-> FALSE, fresh |-> expired \/ ~entry.present]
        ELSE [entry |-> [current EXCEPT !.count = @ + 1], allowed |-> TRUE,
              fresh |-> expired \/ ~entry.present]

\* time passes
Tick ==
    /\ limiter.phase \in {"limiting", "sweeping"}
    /\ limiter.clock < MaxClock
    /\ limiter' = [limiter EXCEPT !.clock = @ + 1]
    /\ UNCHANGED <<fvars, drain, racers, ring, acceptor>>

\* security.rs 179-180: a thread enters is_allowed and reads the clock
IsAllowedBegins(ip) ==
    /\ limiter.phase = "limiting"
    /\ BagCardinality(limiter.calls) < MaxCallers
    /\ limiter' = [limiter EXCEPT !.calls = @ (+) SetToBag({Call(ip, limiter.clock)})]
    /\ UNCHANGED <<fvars, drain, racers, ring, acceptor>>

\* the count a call finds once an absent or expired entry counts as zero
EffectiveCount(entry, now, window_seconds) ==
    IF entry.present /\ now - entry.last_reset <= window_seconds THEN entry.count ELSE 0

\* security.rs 182-197: the thread holds the entry of the ip until it returns
IsAllowedReturns(c) ==
    /\ limiter.phase = "limiting"
    /\ BagIn(c, limiter.calls)
    /\ \E r \in {is_allowed(limiter.requests[c.ip], c.now, limiter.max_requests,
                            limiter.window_seconds)} :
          limiter' = [limiter EXCEPT
                         !.requests[c.ip] = r.entry,
                         !.calls = @ (-) SetToBag({c}),
                         !.admitted[c.ip] = (IF r.fresh THEN 0 ELSE @)
                                            + (IF r.allowed THEN 1 ELSE 0),
                         !.last = [ip |-> c.ip, allowed |-> r.allowed,
                                   effective |-> EffectiveCount(limiter.requests[c.ip], c.now,
                                                                limiter.window_seconds)]]
    /\ UNCHANGED <<fvars, drain, racers, ring, acceptor>>

\* security.rs 202: cleanup reads the clock and computes the cutoff
CleanupBegins ==
    /\ limiter.phase = "limiting"
    /\ limiter.sweep.pc = "idle"
    /\ limiter' = [limiter EXCEPT !.sweep = [pc |-> "retain",
                                             cutoff |-> limiter.clock - 2 * limiter.window_seconds,
                                             todo |-> Ips]]
    /\ UNCHANGED <<fvars, drain, racers, ring, acceptor>>

\* security.rs 204: retain visits the entry of one ip under the lock of its shard
CleanupRetain(ip) ==
    /\ limiter.phase = "limiting"
    /\ limiter.sweep.pc = "retain"
    /\ ip \in limiter.sweep.todo
    /\ \E kept \in {~limiter.requests[ip].present
                    \/ limiter.requests[ip].last_reset > limiter.sweep.cutoff} :
          limiter' = [limiter EXCEPT
                         !.requests[ip] = IF kept THEN @ ELSE NoEntry,
                         !.admitted[ip] = IF kept THEN @ ELSE 0,
                         !.sweep = IF limiter.sweep.todo = {ip} THEN NoSweep
                                   ELSE [@ EXCEPT !.todo = @ \ {ip}]]
    /\ UNCHANGED <<fvars, drain, racers, ring, acceptor>>

InitLimit ==
    /\ IdleServer
    /\ IdleFirst
    /\ drain = NoDrain /\ racers = NoRacers /\ ring = NoRing /\ acceptor = NoAcceptor
    /\ limiter \in {RateLimiter_new(max_requests, window_seconds) :
                        max_requests \in 0..MaxAllowed, window_seconds \in 0..MaxWindow}

NextLimit ==
    \/ Tick
    \/ \E ip \in Ips : IsAllowedBegins(ip)
    \/ \E ip \in Ips, now \in 0..MaxClock : IsAllowedReturns(Call(ip, now))
    \/ CleanupBegins
    \/ \E ip \in Ips : CleanupRetain(ip)

SpecLimit == InitLimit /\ [][NextLimit]_vars

\* ---------------------------------------------------------------------------
\* C38: under any interleaving, for each ip at most max_requests calls are
\* admitted between two resets of its entry and the stored count never exceeds
\* max_requests; a call is denied exactly when the count it finds, taken as
\* zero for an absent or expired entry, has reached max_requests; and a call
\* that finds an expired window is admitted when max_requests > 0.
C38_AtMostMaxRequestsPerWindow ==
    /\ \A ip \in Ips :
          /\ limiter.admitted[ip] <= limiter.max_requests
          /\ limiter.requests[ip].count <= limiter.max_requests
          /\ limiter.requests[ip].present => limiter.admitted[ip] = limiter.requests[ip].count
    /\ limiter.last # NoAnswer =>
          (limiter.last.allowed <=> limiter.last.effective < limiter.max_requests)

\* the entry of an ip was created or reset after the start, calls were
\* admitted up to the limit and the last call was denied, while another call
\* for the same ip that read the clock before the reset has yet to take the entry
C38_Witness ==
    /\ limiter.max_requests > 0
    /\ \E ip \in Ips :
          /\ limiter.requests[ip].present
          /\ limiter.requests[ip].last_reset > 0
          /\ limiter.requests[ip].count = limiter.max_requests
          /\ limiter.last = [ip |-> ip, allowed |-> FALSE, effective |-> limiter.max_requests]
          /\ \E now \in 0..MaxClock :
                 /\ BagIn(Call(ip, now), limiter.calls)
                 /\ now < limiter.requests[ip].last_reset

(***************************************************************************)
(* security.rs RateLimiter: one sequence of is_allowed calls given to two  *)
(* limiters of the same configuration, of which only the first is cleaned  *)
(***************************************************************************)
NoPair == [ip |-> "none", allowed |-> FALSE, reference |-> FALSE]

\* security.rs 201-205, RateLimiter::cleanup: the requests map after the call
cleanup(requests, now, window_seconds) ==
    [ip \in Ips |-> IF requests[ip].present
                       /\ requests[ip].last_reset > now - 2 * window_seconds
                    THEN requests[ip] ELSE NoEntry]

\* the two limiters after RateLimiter::new
Limiters(max_requests, window_seconds) ==
    [phase |-> "sweeping", max_requests |-> max_requests, window_seconds |-> window_seconds,
     clock |-> 0,
     requests |-> RateLimiter_new(max_requests, window_seconds).requests,
     reference |-> RateLimiter_new(max_requests, window_seconds).requests,
     last |-> NoPair]

\* is_allowed(ip) is called on both limiters at the same instant
IsAllowed(ip) ==
    /\ limiter.phase = "sweeping"
    /\ \E r \in {is_allowed(limiter.requests[ip], limiter.clock, limiter.max_requests,
                            limiter.window_seconds)} :
       \E q \in {is_allowed(limiter.reference[ip], limiter.clock, limiter.max_requests,
                            limiter.window_seconds)} :
          limiter' = [limiter EXCEPT
                         !.requests[ip] = r.entry,
                         !.reference[ip] = q.entry,
                         !.last = [ip |-> ip, allowed |-> r.allowed, reference |-> q.allowed]]
    /\ UNCHANGED <<fvars, drain, racers, ring, acceptor>>

\* cleanup is called on the first limiter
Cleanup ==
    /\ limiter.phase = "sweeping"
    /\ limiter' = [limiter EXCEPT
                      !.requests = cleanup(@, limiter.clock, limiter.window_seconds)]
    /\ UNCHANGED <<fvars, drain, racers, ring, acceptor>>

InitSweep ==
    /\ IdleServer
    /\ IdleFirst
    /\ drain = NoDrain /\ racers = NoRacers /\ ring = NoRing /\ acceptor = NoAcceptor
    /\ limiter \in {Limiters(max_requests, window_seconds) :
                        max_requests \in 0..MaxAllowed, window_seconds \in 0..MaxWindow}

NextSweep ==
    \/ Tick
    \/ \E ip \in Ips : IsAllowed(ip)
    \/ Cleanup

SpecSweep == InitSweep /\ [][NextSweep]_vars

\* ---------------------------------------------------------------------------
\* C39: cleanup is transparent: every is_allowed call of a sequence gets the
\* same answer from the limiter that is cleaned at arbitrary points as from
\* the limiter that is never cleaned.
C39_CleanupIsTransparent ==
    limiter.last # NoPair => limiter.last.allowed = limiter.last.reference
====
